---- MODULE Spec2Model ----
(***************************************************************************)
(* Model of the PLEX media processor: the claim/slot locking protocol of   *)
(* src/utils.py, the two directory walkers of src/main.py and the per-file *)
(* workflow process_file of src/file_processing.py, with the naming and    *)
(* versioning helpers of src/naming.py.                                    *)
(*                                                                         *)
(* File names are records of the tokens the source's regular expressions   *)
(* look at.  With key k, number NN, version K, the record stands for       *)
(*   sep = "dash", ver = 0 :  "<k> - NN [1080p].<ext>"                     *)
(*   sep = "dash", ver = K :  "<k> - NNvK [1080p].<ext>"                   *)
(*   sep = "SE",   ver = 0 :  "<k> - SssENN [1080p].<ext>"                 *)
(*   sep = "SE",   ver = K :  "<k> - SssENNvK [1080p].<ext>"               *)
(*   sep = "E",    ver = 0 :  "<k> ENN.<ext>"                              *)
(*   sep = "E",    ver = K :  "<k> ENNvK.<ext>"                            *)
(*   sep = "none"          :  "<k> 2019 1080p.<ext>" (year) or             *)
(*                            "<k> 1080p.<ext>"                            *)
(* enc = TRUE says the resolution token has been rewritten to              *)
(* "1080p_AV1_<bit>Bit_C<crf>" by build_output_name.                       *)
(***************************************************************************)
EXTENDS Integers, Sequences, FiniteSets, TLC

(* What extract_episode_number_and_version returns for "no episode number". *)
NoInfo == <<>>

(* What calculate_vmaf_crf returns for None. *)
NoCrf == 0 - 1

(* The st_mtime of a working directory that does not exist. *)
NoTmpDir == 0 - 1

(* ---------------------------------------------------------------- names *)

Name(key, sep, season, num, ver, ext) ==
  [key |-> key, sep |-> sep, season |-> season, num |-> num, ver |-> ver,
   year |-> FALSE, enc |-> FALSE, ext |-> ext]

MovieName(key, ext) ==
  [key |-> key, sep |-> "none", season |-> 0, num |-> 0, ver |-> 0,
   year |-> TRUE, enc |-> FALSE, ext |-> ext]

(* f"{n:02d}": the decimal digits of n, zero-padded to two places. *)
Fmt02(n) ==
  IF n < 10 THEN <<0, n>>
  ELSE IF n < 100 THEN <<n \div 10, n % 10>>
  ELSE <<n \div 100, (n \div 10) % 10, n % 10>>

IsPrefix(s, t) == Len(s) <= Len(t) /\ SubSeq(t, 1, Len(s)) = s

(* EPISODE_PATTERNS, tried in order; the result of the first pattern whose  *)
(* search succeeds, as the list of its capturing groups.  Every pattern has *)
(* exactly one capturing group.  Pattern 3 (dash) needs the digits to be    *)
(* followed by a bracket, parenthesis, period or the end, so a "vK" glued   *)
(* to the number defeats it; a number inside an SssENN token is preceded by *)
(* an alphanumeric and is matched by no pattern.  Pattern 1 (E token) only  *)
(* needs the digits not to be followed by a digit.                          *)
EPISODE_PATTERNS_search(name) ==
  IF name.sep = "E" THEN <<name.num>>
  ELSE IF name.sep = "dash" /\ name.ver = 0 THEN <<name.num>>
  ELSE <<>>

(* An extraction that keeps the corrected number whatever its sign. *)
extract_without_fallback(original_name, offset) ==
  LET groups == EPISODE_PATTERNS_search(original_name)
  IN IF groups = <<>> THEN NoInfo ELSE <<groups[1] - offset, 1>>

extract_episode_number_and_version(original_name, offset) ==
  LET groups == EPISODE_PATTERNS_search(original_name)
      ep_num == IF groups = <<>> THEN 0 ELSE groups[1]
      ver == IF Len(groups) >= 2 THEN groups[2] ELSE 1
      corrected == IF ep_num - offset < 1 THEN ep_num ELSE ep_num - offset
  IN IF groups = <<>> THEN NoInfo ELSE <<corrected, ver>>

(* SUBSTITUTIONS applied to the stem: the resolution token, when the name   *)
(* has one, is rewritten.                                                   *)
build_output_name(name) ==
  IF name.sep = "E" THEN name ELSE [name EXCEPT !.enc = TRUE]

(* A tagging with no already-tagged test that reads the number off the     *)
(* base name, tag or not.                                                   *)
tag_episode_from_base(original_name, base_name, season, offset) ==
  IF base_name.sep \in {"dash", "SE"}
  THEN LET n == base_name.num
           c == IF n - offset < 1 THEN n ELSE n - offset
       IN [base_name EXCEPT !.sep = "SE", !.season = season, !.num = c, !.ver = 0]
  ELSE base_name

tag_episode_in_name(original_name, base_name, season, offset) ==
  LET info == extract_episode_number_and_version(original_name, offset) IN
  IF base_name.sep = "SE" THEN base_name
  ELSE IF info = NoInfo THEN base_name
  ELSE IF base_name.sep = "dash"
       THEN [base_name EXCEPT !.sep = "SE", !.season = season, !.num = info[1],
                              !.ver = IF info[2] > 1 THEN info[2] ELSE 0]
       ELSE base_name

(* ----------------------------------------------------- files and rules *)

Procs == {1, 2}

NoName == [key |-> <<>>, sep |-> "none", season |-> 0, num |-> 0, ver |-> 0,
           year |-> FALSE, enc |-> FALSE, ext |-> ""]

(* A file: its name, the identity of its content, the codec a probe of it  *)
(* reports, whether it is completely written, its duration and the time of *)
(* its last modification (st_mtime), both in seconds, and what the ab-av1   *)
(* crf-search answers for it (-1: the search fails).                       *)
File(name, id, codec) ==
  [name |-> name, id |-> id, codec |-> codec, st |-> "whole", dur |-> 1440,
   mtime |-> 0, vmaf |-> 30]

NoFile == [name |-> NoName, id |-> 0, codec |-> "none", st |-> "whole", dur |-> 0,
           mtime |-> 0, vmaf |-> 0 - 1]

(* An archive: the video members tarfile would extract from it. *)
Tar(name, id, members) ==
  [name |-> name, id |-> id, codec |-> "none", st |-> "whole", dur |-> 0,
   mtime |-> 0, vmaf |-> 0 - 1,
   members |-> members]

(* The rule table (rows of the CSV, in order) and the row both walkers     *)
(* build for a movie.  blank names the numeric cells of the row that are   *)
(* empty in the CSV, which pd.read_csv(...).fillna("") reads as "".        *)
Rules ==
  << [FileSearchTerm |-> <<"show">>, RegexSearch |-> 0, Show |-> "Show",
      Season |-> 1, Offset |-> 0, AdultOnly |-> 0, CRF |-> "30", MoveOnly |-> 0,
      blank |-> {}],
     [FileSearchTerm |-> <<"show">>, RegexSearch |-> 0, Show |-> "Show",
      Season |-> 1, Offset |-> 0, AdultOnly |-> 0, CRF |-> "30", MoveOnly |-> 1,
      blank |-> {}] >>

MovieRow(adult_only) ==
  [FileSearchTerm |-> <<>>, RegexSearch |-> 0, Show |-> "",
   Season |-> 0, Offset |-> 0, AdultOnly |-> IF adult_only THEN 1 ELSE 0,
   CRF |-> "vmaf", MoveOnly |-> 0, blank |-> {}]


(* term.lower() in file_path.name.lower(): the term's words occur, in order *)
(* and adjacent, in the name.                                               *)
IsInfix(t, k) ==
  \E i \in 0..(Len(k) - Len(t)) : SubSeq(k, i + 1, i + Len(t)) = t

(* The test of one rule row against a file name in the rule loop. *)
row_matches(row, name) ==
  /\ row.FileSearchTerm # <<>>
  /\ IsInfix(row.FileSearchTerm, name.key)

(* Path.suffix: what follows the last dot of the name. *)
suffix(name) == IF name.ext = "tar.gz" THEN "gz" ELSE name.ext

(* The names of the Slot markers: ".root_conversion.lock" and              *)
(* ".subdir_conversion.lock", both in ROOT_DIR.                            *)
SlotName(slot) ==
  [NoName EXCEPT !.key = <<IF slot = "root" THEN ".root_conversion"
                           ELSE ".subdir_conversion">>,
                 !.ext = "lock"]

(* A test that takes no path for a lock marker. *)
is_lock_file_never(name) == FALSE

(* is_lock_file: the path is one of the two Slot markers or its suffix is  *)
(* ".lock".                                                                *)
is_lock_file(name) ==
  \/ name \in {SlotName("root"), SlotName("sub")}
  \/ suffix(name) = "lock"

(* ------------------------------------------------------ the file system *)

VARIABLES
  root,     \* files in ROOT_DIR (the TV inbox)
  sub,      \* files in the movie subdirectory of ROOT_DIR
  dest,     \* library: entries [dir, f]
  fail,     \* FAILURE_DIR: entries [dir, f], dir "tv" or "movie"
  tmp,      \* tmp[p]: files in TMP_BASE_DIR/<pid of p>
  locks,    \* lock marker files: entries [path, pid]
  pc,       \* pc[p]: where process p is
  todo,     \* todo[p]: what is left of sorted(wd.iterdir())
  cur,      \* cur[p]: file_path of the current iteration
  loc,      \* loc[p]: the local variables of the walkers and process_file
            \* (denied: a Claim or Slot was refused in this iteration)
  cnt,      \* cnt[p]: counters of the run
  dest0,    \* dest0[p]: the library as it was when p entered process_file
  drops,    \* number of files dropped into the inbox so far
  runs,     \* number of runs of main started after the first ones
  now,      \* time.time(), in seconds
  argv,     \* argv[p]: the command-line flags of process p
  VMAF_CRF_CACHE, \* VMAF_CRF_CACHE[p]: the module dictionary of process p,
            \* as a set of [key, crf]
  unreachable,    \* the refresh endpoints that do not answer
  tmpdir    \* tmpdir[p]: st_mtime of TMP_BASE_DIR/<pid of p>, NoTmpDir when the
            \* directory does not exist

vars == <<root, sub, dest, fail, tmp, locks, pc, todo, cur, loc, cnt, dest0, drops, runs, now, argv,
               VMAF_CRF_CACHE, unreachable, tmpdir>>

Entry(dir, f) == [dir |-> dir, f |-> f]

(* Moving or writing f into a directory replaces a file of the same name. *)
PutFile(files, f) == {g \in files : g.name # f.name} \cup {f}

PutEntry(entries, dir, f) ==
  {e \in entries : ~(e.dir = dir /\ e.f.name = f.name)} \cup {Entry(dir, f)}

Listing(entries, dir) == {e.f : e \in {x \in entries : x.dir = dir}}

WdFiles(wd) == IF wd = "root" THEN root ELSE sub

SlotPath(slot) == [kind |-> "slot", wd |-> slot, name |-> NoName]

(* p.with_suffix(p.suffix + ".lock") *)
ClaimPath(wd, name) == [kind |-> "claim", wd |-> wd, name |-> name]

LockExists(path) == \E l \in locks : l.path = path

(* A create without O_EXCL opens the marker whether or not it exists. *)
open_creat_ok(path) == TRUE

(* A create that takes over a marker whose creator no longer runs. *)
open_excl_or_stale(path) == \A l \in locks : l.path = path => l.pid = 0

(* os.open(path, O_CREAT | O_EXCL | O_RDWR): fails when the path exists. *)
open_excl_ok(path) == ~LockExists(path)

(* A directory lock that is granted without looking at the marker. *)
_lock_dir_shared(lock_path) == TRUE

(* _lock_dir_atomic: the exclusive create of the Slot marker; TRUE when the *)
(* descriptor is returned, FALSE when None is.                              *)
_lock_dir_atomic(lock_path) == open_excl_ok(lock_path)

(* A release that unlinks the marker whoever created it. *)
released_always(created, path) == {path}

(* The marker that leaving a lock scope unlinks.  with_lock's finally calls *)
(* _unlock_dir_fd only when the descriptor is not None; file_sidecar_lock   *)
(* returns after "yield False" and reaches its own finally only when it has *)
(* created the sidecar.                                                     *)
released_on_exit(created, path) == IF created THEN {path} ELSE {}

(* get_final_dest_dir / _movie_final_dest_dir *)
final_dest_dir(media_type, row, name) ==
  IF media_type = "movie"
  THEN [lib |-> "movie", adult |-> row.AdultOnly, folder |-> name.key, season |-> 0]
  ELSE [lib |-> "tv", adult |-> row.AdultOnly, folder |-> <<row.Show>>,
        season |-> row.Season]

(* pat.search(p.name) for the pattern "S{season:02d}E{episode:02d}(?:v(\d+))?": *)
(* the version the match carries (1 without a suffix), 0 when no match.  The    *)
(* pattern is not anchored after the episode digits.                            *)
tag_search(name, season, episode) ==
  IF /\ name.sep = "SE"
     /\ Fmt02(name.season) = Fmt02(season)
     /\ IsPrefix(Fmt02(episode), Fmt02(name.num))
  THEN IF Fmt02(name.num) = Fmt02(episode) /\ name.ver > 0 THEN name.ver ELSE 1
  ELSE 0

SetMax(S) == IF S = {} THEN 0 ELSE CHOOSE x \in S : \A y \in S : y <= x

_find_existing_episode_version(dir, season, episode) ==
  SetMax({tag_search(f.name, season, episode) : f \in Listing(dest, dir)})

(* The files _delete_older_episode_versions unlinks. *)
_delete_older_episode_versions(dir, season, episode, keep_version) ==
  IF keep_version <= 1 THEN {}
  ELSE {f \in Listing(dest, dir) :
          /\ tag_search(f.name, season, episode) > 0
          /\ tag_search(f.name, season, episode) < keep_version}

(* -------------------------------------------------------- process_file *)

NoDir == [lib |-> "", adult |-> 0, folder |-> <<>>, season |-> 0]

(* Where _move_to_failures stands between its move and its os.utime: the   *)
(* quarantine directory and the name of the moved file, current_mtime, and  *)
(* the step the caller goes on with.                                        *)
NoMove == [dir |-> "", name |-> NoName, at |-> 0, next |-> ""]

InitLoc ==
  [walker |-> "", wd |-> "root", stage |-> "", ours |-> FALSE, slot |-> "none",
   denied |-> FALSE, cleaned |-> FALSE,
   rowi |-> 0, matched |-> FALSE, media |-> "", row |-> MovieRow(FALSE),
   info |-> NoInfo, emax |-> 0, dir |-> NoDir, out |-> NoName, probed |-> FALSE,
   crf |-> NoCrf, searched |-> FALSE, ffmpeg |-> "", ret |-> FALSE,
   refreshed |-> FALSE, warned |-> {}, mtf |-> NoMove, skipped |-> 0]

(* media_type == "tv" and season > 0 and episode_for_versioning is not None *)
(* and version_num is not None                                              *)
Versioned(l) == l.media = "tv" /\ l.row.Season > 0 /\ l.info # NoInfo

(* Lines 102-144: the guard, the row's fields (int("") of an empty Season   *)
(* or Offset cell raises ValueError), the episode and version of           *)
(* the candidate, the destination directory.  The caller has set cur, media *)
(* and row.                                                                 *)
PFStart(p) ==
  /\ pc[p] = "pf_start"
  /\ LET l == loc[p]
         name == cur[p].name
         info == IF l.media = "tv" /\ l.row.Season > 0
                 THEN extract_episode_number_and_version(name, l.row.Offset)
                 ELSE NoInfo
         l2 == [l EXCEPT !.info = info, !.emax = 0, !.out = NoName,
                         !.crf = NoCrf, !.searched = FALSE,
                         !.probed = FALSE, !.ret = FALSE, !.ffmpeg = "",
                         !.refreshed = FALSE, !.warned = {},
                         !.dir = final_dest_dir(l.media, l.row, name)]
     IN IF cur[p] \notin WdFiles(l.wd) \/ is_lock_file(name)
        THEN /\ loc' = [loc EXCEPT ![p] = [l EXCEPT !.ret = FALSE, !.probed = FALSE,
                                                    !.info = NoInfo, !.emax = 0,
                                                    !.ffmpeg = "",
                                                    !.refreshed = FALSE, !.warned = {},
                                                    !.crf = NoCrf, !.searched = FALSE,
                                                    !.out = NoName, !.dir = NoDir]]
             /\ pc' = [pc EXCEPT ![p] = "pf_ret"]
        ELSE IF l.row.blank \cap {"Season", "Offset"} # {}
        THEN /\ loc' = loc
             /\ pc' = [pc EXCEPT ![p] = "exc"]
        ELSE /\ loc' = [loc EXCEPT ![p] = l2]
             /\ pc' = [pc EXCEPT ![p] = IF Versioned(l2) THEN "pf_ver" ELSE "pf_probe"]
  /\ dest0' = [dest0 EXCEPT ![p] = dest]
  /\ UNCHANGED <<root, sub, dest, fail, tmp, locks, todo, cur, cnt, drops, runs, now, argv,
               VMAF_CRF_CACHE, unreachable, tmpdir>>

(* A check that lets an equal version through. *)
superseded_strictly(existing_max, version_num) ==
  existing_max > 0 /\ existing_max > version_num

(* The outcome of the version check of lines 153-170 for the maximum found: *)
(* TRUE when the candidate is superseded.                                   *)
superseded(existing_max, version_num) ==
  existing_max > 0 /\ (existing_max > version_num \/ existing_max = version_num)

(* Lines 147-170: the listing of the destination and the comparison. *)
PFVersionCheck(p) ==
  /\ pc[p] = "pf_ver"
  /\ LET l == loc[p]
         existing_max == _find_existing_episode_version(l.dir, l.row.Season, l.info[1])
     IN /\ loc' = [loc EXCEPT ![p].emax = existing_max]
        /\ pc' = [pc EXCEPT ![p] = IF superseded(existing_max, l.info[2])
                                   THEN "pf_super" ELSE "pf_probe"]
  /\ UNCHANGED <<root, sub, dest, fail, tmp, locks, todo, cur, cnt, dest0, drops, runs, now, argv,
               VMAF_CRF_CACHE, unreachable, tmpdir>>

(* _move_to_failures, lines 34-41: current_mtime is read, then shutil.move  *)
(* puts the file, with the modification time it has, into FAILURE_DIR/tv or *)
(* /movie; a failure of the move (the source is gone) is logged and         *)
(* swallowed, and os.utime is not reached.                                  *)
RemoveFrom(wd, f) ==
  /\ root' = IF wd = "root" THEN root \ {f} ELSE root
  /\ sub' = IF wd = "sub" THEN sub \ {f} ELSE sub

_move_to_failures(wd, f, tv_like) ==
  /\ RemoveFrom(wd, f)
  /\ fail' = IF f \in WdFiles(wd)
             THEN PutEntry(fail, IF tv_like THEN "tv" ELSE "movie", f)
             ELSE fail

(* The locals of _move_to_failures after its move, and the step that        *)
(* follows the move: os.utime when the move succeeded, else the caller's.   *)
moving(l, f, tv_like, next) ==
  [l EXCEPT !.mtf = IF f \in WdFiles(l.wd)
                    THEN [dir |-> IF tv_like THEN "tv" ELSE "movie", name |-> f.name,
                          at |-> now, next |-> next]
                    ELSE NoMove]

after_move(l, f, next) == IF f \in WdFiles(l.wd) THEN "utime" ELSE next

(* os.utime(fail_target_dir / file_path.name, (current_mtime, current_mtime)) *)
(* on whatever file has that path now; with no such file the call raises     *)
(* and the exception is logged and swallowed.                                *)
os_utime_path(entries, m) ==
  {IF e.dir = m.dir /\ e.f.name = m.name
   THEN Entry(e.dir, [e.f EXCEPT !.mtime = m.at]) ELSE e : e \in entries}

(* _move_to_failures, lines 43-49: the modification time of the moved file *)
(* is set, and the caller goes on.                                         *)
os_utime(p) ==
  /\ pc[p] = "utime"
  /\ fail' = os_utime_path(fail, loc[p].mtf)
  /\ pc' = [pc EXCEPT ![p] = loc[p].mtf.next]
  /\ loc' = [loc EXCEPT ![p].mtf = NoMove]
  /\ UNCHANGED <<root, sub, dest, tmp, locks, todo, cur, cnt, dest0, drops, runs, now, argv,
               VMAF_CRF_CACHE, unreachable, tmpdir>>

(* Lines 161-162 and 169-170: the superseded candidate goes to quarantine. *)
PFSuperseded(p) ==
  /\ pc[p] = "pf_super"
  /\ _move_to_failures(loc[p].wd, cur[p], TRUE)
  /\ loc' = [loc EXCEPT ![p] = moving([loc[p] EXCEPT !.ret = FALSE], cur[p], TRUE, "pf_ret")]
  /\ pc' = [pc EXCEPT ![p] = after_move(loc[p], cur[p], "pf_ret")]
  /\ UNCHANGED <<dest, tmp, locks, todo, cur, cnt, dest0, drops, runs, now, argv,
               VMAF_CRF_CACHE, unreachable, tmpdir>>

(* A decision that ignores the force flag. *)
move_as_is_unforced(move_only, codec, force_reencode) ==
  move_only \/ codec \in {"hevc", "av1"}

(* Line 181: move as it is, or encode. *)
move_as_is(move_only, codec, force_reencode) ==
  move_only \/ (codec \in {"hevc", "av1"} /\ ~force_reencode)

(* "-r" in sys.argv *)
FORCE_REENCODE(p) == "-r" \in argv[p]

(* PRESET_DEFAULT and TV_CRF_FALLBACK of the configuration. *)
PRESET_DEFAULT == 6

TV_CRF_FALLBACK == 32

(* The 4 that determine_crf takes off a search result (line 100). *)
VmafMargin == 4

(* detect_resolution_from_name: the first resolution tag in the name. *)
detect_resolution_from_name(name) == IF name.sep = "E" THEN "unknown" ELSE "1080p"

(* show.strip().lower() *)
strip_lower(show) ==
  IF show \in {"Show", "show", "SHOW", " Show "} THEN "show" ELSE show

cache_key(f, show) ==
  [show |-> strip_lower(show), res |-> detect_resolution_from_name(f.name),
   preset |-> PRESET_DEFAULT]

(* A lookup that never finds anything. *)
cache_never_hits(cache, key) == {}

(* cache_key in VMAF_CRF_CACHE: the entries of the key. *)
cache_lookup(cache, key) == {c \in cache : c.key = key}

(* Lines 81-87: only a found value is stored. *)
cache_store(cache, key, crf) ==
  IF crf # NoCrf THEN cache \cup {[key |-> key, crf |-> crf]} ELSE cache

(* calculate_vmaf_crf: the value, the dictionary afterwards, and whether    *)
(* ab-av1 crf-search was run.  A file with no video stream, or gone,        *)
(* returns None before the search.                                          *)
calculate_vmaf_crf(cache, f, present, show) ==
  LET key == cache_key(f, show)
      hits == cache_lookup(cache, key)
      has_video == present /\ f.codec \notin {"none", "unknown"}
  IN IF hits # {}
     THEN [crf |-> (CHOOSE c \in hits : TRUE).crf, cache |-> cache, searched |-> FALSE]
     ELSE IF ~has_video
     THEN [crf |-> NoCrf, cache |-> cache, searched |-> FALSE]
     ELSE [crf |-> f.vmaf, cache |-> cache_store(cache, key, f.vmaf), searched |-> TRUE]

(* int(crf_val), NoCrf when it raises *)
int_of(crf_val) ==
  IF crf_val = "30" THEN 30 ELSE IF crf_val = "28" THEN 28 ELSE NoCrf

(* crf_val.strip().lower() == "vmaf" *)
is_vmaf(crf_val) == crf_val \in {"vmaf", "VMAF", " vmaf "}

(* A resolution that passes the search result on as it is. *)
determine_crf_unadjusted(cache, row, f, present, show) ==
  IF is_vmaf(row.CRF)
  THEN LET r == calculate_vmaf_crf(cache, f, present, show)
       IN [r EXCEPT !.crf = IF r.crf = NoCrf THEN TV_CRF_FALLBACK ELSE r.crf]
  ELSE [crf |-> IF int_of(row.CRF) = NoCrf THEN TV_CRF_FALLBACK ELSE int_of(row.CRF),
        cache |-> cache, searched |-> FALSE]

(* determine_crf, lines 94-105 *)
determine_crf(cache, row, f, present, show) ==
  IF is_vmaf(row.CRF)
  THEN LET r == calculate_vmaf_crf(cache, f, present, show)
       IN [r EXCEPT !.crf = IF r.crf = NoCrf THEN TV_CRF_FALLBACK
                             ELSE r.crf - VmafMargin]
  ELSE [crf |-> IF int_of(row.CRF) = NoCrf THEN TV_CRF_FALLBACK ELSE int_of(row.CRF),
        cache |-> cache, searched |-> FALSE]

(* STALE_TMP_AGE of the configuration, in seconds. *)
STALE_TMP_AGE == 43200

(* cleanup_stale_tmp_dirs, lines 31-37, called by process p: the directory  *)
(* of q is removed when it is older than max_age, whoever q is and whatever *)
(* q is doing.                                                              *)
is_stale(p, q) ==
  /\ tmpdir[q] # NoTmpDir
  /\ now - tmpdir[q] > STALE_TMP_AGE

(* get_tmp_dir called by p: the working directories and their files after  *)
(* the stale cleanup and the mkdir of p's own directory.                    *)
get_tmp_dir_mtimes(p) ==
  [q \in Procs |->
     IF q = p
     THEN (IF tmpdir[q] = NoTmpDir \/ is_stale(p, q) THEN now ELSE tmpdir[q])
     ELSE (IF is_stale(p, q) THEN NoTmpDir ELSE tmpdir[q])]

get_tmp_dir_files(p) ==
  [q \in Procs |-> IF is_stale(p, q) THEN {} ELSE tmp[q]]

(* Lines 174-181 and 198-216: the probe of the codec (a failed probe gives  *)
(* "unknown"), the decision, and for the encode path get_tmp_dir, the       *)
(* quality and the name of the output in the working directory.             *)
PFProbe(p) ==
  /\ pc[p] = "pf_probe"
  /\ LET l == loc[p]
         present == cur[p] \in WdFiles(l.wd)
         codec == IF present THEN cur[p].codec ELSE "unknown"
         q == determine_crf(VMAF_CRF_CACHE[p], l.row, cur[p], present, l.row.Show)
         stem == build_output_name(cur[p].name)
         output_stem == IF l.media = "tv" /\ l.row.Season > 0
                        THEN tag_episode_in_name(cur[p].name, stem, l.row.Season,
                                                 l.row.Offset)
                        ELSE stem
     IN IF move_as_is(l.row.MoveOnly = 1, codec, FORCE_REENCODE(p))
        THEN /\ loc' = [loc EXCEPT ![p].probed = TRUE]
             /\ VMAF_CRF_CACHE' = VMAF_CRF_CACHE
             /\ UNCHANGED <<tmp, tmpdir>>
             /\ pc' = [pc EXCEPT ![p] = "pf_move"]
        ELSE /\ loc' = [loc EXCEPT ![p].probed = TRUE,
                                   ![p].crf = q.crf,
                                   ![p].searched = q.searched,
                                   ![p].out = [output_stem EXCEPT !.ext = "mkv"]]
             /\ VMAF_CRF_CACHE' = [VMAF_CRF_CACHE EXCEPT ![p] = q.cache]
             /\ tmp' = get_tmp_dir_files(p)
             /\ tmpdir' = get_tmp_dir_mtimes(p)
             /\ pc' = [pc EXCEPT ![p] = "pf_enc"]
  /\ UNCHANGED <<root, sub, dest, fail, locks, todo, cur, cnt, dest0, drops, runs, now,
                 argv, unreachable>>

(* Line 182: shutil.move(file_path, final_dest_dir / file_path.name).  With *)
(* the source gone the move raises and nothing in process_file catches it.  *)
PFMove(p) ==
  /\ pc[p] = "pf_move"
  /\ IF cur[p] \in WdFiles(loc[p].wd)
     THEN /\ dest' = PutEntry(dest, loc[p].dir, cur[p])
          /\ RemoveFrom(loc[p].wd, cur[p])
          /\ pc' = [pc EXCEPT ![p] = "pf_fin"]
     ELSE /\ UNCHANGED <<dest, root, sub>>
          /\ pc' = [pc EXCEPT ![p] = "exc"]
  /\ UNCHANGED <<fail, tmp, locks, todo, cur, loc, cnt, dest0, drops, runs, now, argv,
               VMAF_CRF_CACHE, unreachable, tmpdir>>

(* The refresh endpoints, one per configured library section. *)
PLEX_REFRESH_URLS == {"section 1", "section 2"}

(* A refresh that lets the failure of an endpoint leave it. *)
_refresh_plex_libraries_uncaught(down) ==
  [raised |-> PLEX_REFRESH_URLS \cap down # {},
   warned |-> {}]

(* _refresh_plex_libraries: every endpoint is called; the exception of a    *)
(* call that fails is caught and logged as a warning, none leaves the       *)
(* function.  down: the endpoints that do not answer.                       *)
_refresh_plex_libraries(down) ==
  [raised |-> FALSE,
   warned |-> PLEX_REFRESH_URLS \cap down]

(* Lines 185-194 and 229-238: the cleanup of superseded versions after the  *)
(* new file is in the destination, the refresh, return True.                *)
PFFinish(p) ==
  /\ pc[p] = "pf_fin"
  /\ LET l == loc[p]
         gone == IF Versioned(l)
                 THEN _delete_older_episode_versions(l.dir, l.row.Season,
                                                     l.info[1], l.info[2])
                 ELSE {}
     IN dest' = {e \in dest : ~(e.dir = l.dir /\ e.f \in gone)}
  /\ LET r == _refresh_plex_libraries(unreachable) IN
     IF r.raised
     THEN /\ loc' = loc
          /\ pc' = [pc EXCEPT ![p] = "exc"]
     ELSE /\ loc' = [loc EXCEPT ![p].ret = TRUE, ![p].refreshed = TRUE,
                                ![p].warned = r.warned]
          /\ pc' = [pc EXCEPT ![p] = "pf_ret"]
  /\ UNCHANGED <<root, sub, fail, tmp, locks, todo, cur, cnt, dest0, drops, runs, now, argv,
               VMAF_CRF_CACHE, unreachable, tmpdir>>

(* A transcode writing straight into the destination directory. *)
output_in_dest == "dest"

(* Where the transcode writes: tmp_output = TMP_DIR / f"{output_stem}.mkv", *)
(* TMP_DIR being the working directory of the process.                      *)
tmp_output_area == "tmp"

(* Lines 219-223: ffmpeg starts writing tmp_output ("-y" overwrites); the   *)
(* new entry sets the modification time of the working directory.  With     *)
(* the directory gone ffmpeg cannot open its output and fails.              *)
PFEncodeStart(p) ==
  /\ pc[p] = "pf_enc"
  /\ LET part == [name |-> loc[p].out, id |-> cur[p].id, codec |-> "av1",
                  st |-> "partial", dur |-> cur[p].dur,
                  mtime |-> now, vmaf |-> cur[p].vmaf]
     IN IF tmp_output_area = "tmp"
        THEN IF tmpdir[p] # NoTmpDir
             THEN /\ tmp' = [tmp EXCEPT ![p] = PutFile(tmp[p], part)]
                  /\ tmpdir' = [tmpdir EXCEPT ![p] = now]
                  /\ loc' = loc
                  /\ pc' = [pc EXCEPT ![p] = "pf_encoding"]
                  /\ dest' = dest
             ELSE /\ UNCHANGED <<tmp, tmpdir, dest>>
                  /\ loc' = [loc EXCEPT ![p].ffmpeg = "failed"]
                  /\ pc' = [pc EXCEPT ![p] = "pf_encfail"]
        ELSE /\ dest' = PutEntry(dest, loc[p].dir, part)
             /\ loc' = loc
             /\ pc' = [pc EXCEPT ![p] = "pf_encoding"]
             /\ UNCHANGED <<tmp, tmpdir>>
  /\ UNCHANGED <<root, sub, fail, locks, todo, cur, cnt, dest0, drops, runs, now, argv,
               VMAF_CRF_CACHE, unreachable>>

OutFiles(p) == {f \in tmp[p] : f.name = loc[p].out}

(* subprocess.run(cmd, check=True) returns: the output is complete.  The    *)
(* transcode needs its source.                                              *)
FfmpegOk(p) ==
  /\ pc[p] = "pf_encoding"
  /\ cur[p] \in WdFiles(loc[p].wd)
  /\ tmp' = [tmp EXCEPT ![p] =
               {IF f.name = loc[p].out THEN [f EXCEPT !.st = "whole"] ELSE f : f \in tmp[p]}]
  /\ dest' = {IF e.dir = loc[p].dir /\ e.f.name = loc[p].out /\ e.f.st = "partial"
              THEN Entry(e.dir, [e.f EXCEPT !.st = "whole"]) ELSE e : e \in dest}
  /\ loc' = [loc EXCEPT ![p].ffmpeg = "ok"]
  /\ pc' = [pc EXCEPT ![p] = "pf_commit"]
  /\ UNCHANGED <<root, sub, fail, locks, todo, cur, cnt, dest0, drops, runs, now, argv,
               VMAF_CRF_CACHE, unreachable, tmpdir>>

(* subprocess.run raises CalledProcessError (source vanished, or any other  *)
(* failure of the transcode): the partial output stays behind for now.      *)
FfmpegFail(p) ==
  /\ pc[p] = "pf_encoding"
  /\ loc' = [loc EXCEPT ![p].ffmpeg = "failed"]
  /\ pc' = [pc EXCEPT ![p] = "pf_encfail"]
  /\ UNCHANGED <<root, sub, dest, fail, tmp, locks, todo, cur, cnt, dest0, drops, runs, now, argv,
               VMAF_CRF_CACHE, unreachable, tmpdir>>

(* Lines 224-225: shutil.move(tmp_output, final_dest_dir / tmp_output.name). *)
(* With tmp_output gone the move raises FileNotFoundError, which the except  *)
(* clause for CalledProcessError does not catch.                             *)
PFCommit(p) ==
  /\ pc[p] = "pf_commit"
  /\ IF OutFiles(p) # {}
     THEN /\ dest' = PutEntry(dest, loc[p].dir, CHOOSE f \in OutFiles(p) : TRUE)
          /\ tmp' = [tmp EXCEPT ![p] = tmp[p] \ OutFiles(p)]
          /\ tmpdir' = [tmpdir EXCEPT ![p] = now]
          /\ pc' = [pc EXCEPT ![p] = "pf_unlink"]
     ELSE /\ IF tmp_output_area = "tmp"
             THEN pc' = [pc EXCEPT ![p] = "exc"]
             ELSE pc' = [pc EXCEPT ![p] = "pf_unlink"]
          /\ UNCHANGED <<dest, tmp, tmpdir>>
  /\ UNCHANGED <<root, sub, fail, locks, todo, cur, loc, cnt, dest0, drops, runs, now, argv,
               VMAF_CRF_CACHE, unreachable>>

(* Line 226: file_path.unlink(missing_ok=True). *)
PFUnlinkSource(p) ==
  /\ pc[p] = "pf_unlink"
  /\ RemoveFrom(loc[p].wd, cur[p])
  /\ pc' = [pc EXCEPT ![p] = "pf_fin"]
  /\ UNCHANGED <<dest, fail, tmp, locks, todo, cur, loc, cnt, dest0, drops, runs, now, argv,
               VMAF_CRF_CACHE, unreachable, tmpdir>>

(* A failure handler that leaves the partial output where it is. *)
PFEncodeFailedKeep(p) ==
  /\ pc[p] = "pf_encfail"
  /\ loc' = [loc EXCEPT ![p].ret = FALSE]
  /\ pc' = [pc EXCEPT ![p] = "pf_ret"]
  /\ UNCHANGED <<root, sub, dest, fail, tmp, locks, todo, cur, cnt, dest0, drops, runs, now, argv,
               VMAF_CRF_CACHE, unreachable, tmpdir>>

(* Lines 239-254: the partial output is deleted, return False. *)
PFEncodeFailed(p) ==
  /\ pc[p] = "pf_encfail"
  /\ tmp' = [tmp EXCEPT ![p] = tmp[p] \ OutFiles(p)]
  /\ tmpdir' = IF OutFiles(p) # {} THEN [tmpdir EXCEPT ![p] = now] ELSE tmpdir
  /\ loc' = [loc EXCEPT ![p].ret = FALSE]
  /\ pc' = [pc EXCEPT ![p] = "pf_ret"]
  /\ UNCHANGED <<root, sub, dest, fail, locks, todo, cur, cnt, dest0, drops, runs, now, argv,
               VMAF_CRF_CACHE, unreachable>>

process_file(p) ==
  \/ PFStart(p)
  \/ PFVersionCheck(p)
  \/ PFSuperseded(p)
  \/ PFProbe(p)
  \/ PFMove(p)
  \/ PFFinish(p)
  \/ PFEncodeStart(p)
  \/ FfmpegOk(p)
  \/ FfmpegFail(p)
  \/ PFCommit(p)
  \/ PFUnlinkSource(p)
  \/ PFEncodeFailed(p)

(* ------------------------------------------- process_file on its inputs *)

MaxDrops == 3

ShowKey == <<"show">>

(* "show - 10 [1080p].mkv", "show - 10v2 [1080p].mkv",                      *)
(* "show - S01E10v2 [1080p].mkv", "show - 100 [1080p].mkv"                  *)
DropNames ==
  { Name(ShowKey, "dash", 0, 10, 0, "mkv"),
    Name(ShowKey, "dash", 0, 10, 2, "mkv"),
    Name(ShowKey, "SE", 1, 10, 2, "mkv"),
    Name(ShowKey, "dash", 0, 100, 0, "mkv") }

DropCodecs == {"h264", "hevc"}

ZeroCounters ==
  [tv_successes |-> 0, tv_failures |-> 0, movie_successes |-> 0,
   movie_failures |-> 0, tar_successes |-> 0, tar_failures |-> 0]

InitPF ==
  /\ root = {}
  /\ sub = {}
  /\ dest = {}
  /\ fail = {}
  /\ tmp = [p \in Procs |-> {}]
  /\ locks = {}
  /\ pc = [p \in Procs |-> IF p = 1 THEN "idle" ELSE "done"]
  /\ todo = [p \in Procs |-> <<>>]
  /\ cur = [p \in Procs |-> NoFile]
  /\ loc = [p \in Procs |-> [InitLoc EXCEPT !.walker = "call"]]
  /\ cnt = [p \in Procs |-> ZeroCounters]
  /\ dest0 = [p \in Procs |-> {}]
  /\ drops = 0
  /\ runs = 0
  /\ now = 0
  /\ argv = [p \in Procs |-> {}]
  /\ VMAF_CRF_CACHE = [p \in Procs |-> {}]
  /\ unreachable = {}
  /\ tmpdir = [p \in Procs |-> NoTmpDir]

(* A file arrives in the inbox between two calls. *)
Drop ==
  /\ drops < MaxDrops
  /\ \A p \in Procs : pc[p] \in {"idle", "done"}
  /\ \E name \in DropNames, codec \in DropCodecs :
       /\ \A f \in root : f.name # name
       /\ root' = root \cup {File(name, drops + 1, codec)}
  /\ drops' = drops + 1
  /\ UNCHANGED <<sub, dest, fail, tmp, locks, pc, todo, cur, loc, cnt, dest0, runs, now, argv,
               VMAF_CRF_CACHE, unreachable, tmpdir>>

(* process_file(file_path, row, media_type="tv") for a file of the inbox   *)
(* and a row whose term matches it.                                        *)
PFCall(p) ==
  /\ pc[p] = "idle"
  /\ \E f \in root, i \in 1..Len(Rules) :
       /\ row_matches(Rules[i], f.name)
       /\ cur' = [cur EXCEPT ![p] = f]
       /\ loc' = [loc EXCEPT ![p] = [InitLoc EXCEPT !.walker = "call", !.wd = "root",
                                                    !.media = "tv", !.row = Rules[i]]]
  /\ pc' = [pc EXCEPT ![p] = "pf_start"]
  /\ UNCHANGED <<root, sub, dest, fail, tmp, locks, todo, cnt, dest0, drops, runs, now, argv,
               VMAF_CRF_CACHE, unreachable, tmpdir>>

PFReturn(p) ==
  /\ pc[p] = "pf_ret"
  /\ loc[p].walker = "call"
  /\ pc' = [pc EXCEPT ![p] = "idle"]
  /\ cur' = [cur EXCEPT ![p] = NoFile]
  /\ loc' = [loc EXCEPT ![p] = [InitLoc EXCEPT !.walker = "call"]]
  /\ dest0' = [dest0 EXCEPT ![p] = {}]
  /\ UNCHANGED <<root, sub, dest, fail, tmp, locks, todo, cnt, drops, runs, now, argv,
               VMAF_CRF_CACHE, unreachable, tmpdir>>

NextPF ==
  \/ Drop
  \/ \E p \in Procs : PFCall(p) \/ process_file(p) \/ os_utime(p) \/ PFReturn(p)

SpecPF == InitPF /\ [][NextPF]_vars

(* ------------------------------------------------- the directory walkers *)

FilmName == MovieName(<<"film">>, "mkv")
MiscName == [MovieName(<<"misc">>, "mkv") EXCEPT !.year = FALSE]
NotesName == [MovieName(<<"notes">>, "txt") EXCEPT !.year = FALSE]
PackName == [MovieName(<<"pack">>, "tar") EXCEPT !.year = FALSE]
(* "pack 1080p.tar.gz" *)
PackGzName == [MovieName(<<"pack">>, "tar.gz") EXCEPT !.year = FALSE]
Show10Mkv == Name(ShowKey, "dash", 0, 10, 0, "mkv")
Show10Mp4 == Name(ShowKey, "dash", 0, 10, 0, "mp4")
(* "show - 10 [1080p].txt" *)
Show10Txt == Name(ShowKey, "dash", 0, 10, 0, "txt")
(* "clip 1080p.2019": the only year of the name is its suffix *)
ClipName == [MovieName(<<"clip">>, "2019") EXCEPT !.year = FALSE]
(* "other 2019 - 05 [1080p].mkv": an episode number and a year, no rule term *)
OtherName == [Name(<<"other">>, "dash", 0, 5, 0, "mkv") EXCEPT !.year = TRUE]

(* The names of the walkers' universe in the order sorted() gives their paths: *)
(* "clip 1080p.2019" < "film 2019 1080p.mkv" < "misc 1080p.mkv"                 *)
(* < "notes 1080p.txt"                                                          *)
(* < "other 2019 - 05 [1080p].mkv" < "pack 1080p.tar" < "pack 1080p.tar.gz"     *)
(* < "show - 10 [1080p].mkv"                                                    *)
(* < "show - 10 [1080p].mp4" < "show - 10 [1080p].txt".                         *)
SortedNames ==
  <<ClipName, FilmName, MiscName, NotesName, OtherName, PackName, PackGzName,
    Show10Mkv, Show10Mp4, Show10Txt>>

(* The name of the Claim sidecar of a file: p.with_suffix(p.suffix +        *)
(* ".lock"), "film 2019 1080p.mkv.lock" for "film 2019 1080p.mkv".          *)
ClaimName(name) == [name EXCEPT !.key = Append(name.key, name.ext), !.ext = "lock"]

(* A lock marker as a directory entry. *)
MarkerFile(name) == [NoFile EXCEPT !.name = name]

(* wd.iterdir(): the files of the directory and the lock markers that are  *)
(* in it, the Claim sidecars next to their files and both Slot markers in  *)
(* ROOT_DIR.                                                                *)
iterdir(wd) ==
  WdFiles(wd)
    \cup {MarkerFile(ClaimName(k.path.name)) :
            k \in {x \in locks : x.path.kind = "claim" /\ x.path.wd = wd}}
    \cup {MarkerFile(SlotName(k.path.wd)) :
            k \in {x \in locks : x.path.kind = "slot" /\ wd = "root"}}

(* The entries with one of the names, in the order of the names. *)
RECURSIVE InOrder(_, _)
InOrder(entries, names) ==
  IF names = <<>> THEN <<>>
  ELSE LET here == {f \in entries : f.name = Head(names)}
       IN (IF here = {} THEN <<>> ELSE <<CHOOSE f \in here : TRUE>>)
          \o InOrder(entries, Tail(names))

(* A name is followed by the name of its sidecar: "x.mkv" < "x.mkv.lock"    *)
(* < any longer or later name of the list.                                  *)
RECURSIVE WithSidecars(_)
WithSidecars(names) ==
  IF names = <<>> THEN <<>>
  ELSE <<Head(names), ClaimName(Head(names))>> \o WithSidecars(Tail(names))

(* sorted(wd.iterdir()): the names that start with a dot come first. *)
sorted_iterdir(entries) ==
  InOrder(entries, <<SlotName("root"), SlotName("sub")>> \o WithSidecars(SortedNames))

(* The paths of a listing that pass the is_lock_file test of the loop head *)
(* (lines 56 and 103); an iteration that fails it does nothing.            *)
RECURSIVE candidates(_)
candidates(listing) ==
  IF listing = <<>> THEN <<>>
  ELSE (IF is_lock_file(Head(listing).name) THEN <<>> ELSE <<Head(listing)>>)
       \o candidates(Tail(listing))

(* The number of iterations the loop skips for lock markers. *)
skipped_markers(listing) == Len(listing) - Len(candidates(listing))

(* file_path.suffix.lower() in ['.tar', '.tar.gz'] *)
is_tar(name) == suffix(name) \in {"tar", "tar.gz"}

allowed_exts == {"mkv", "mp4"}

(* _looks_like_episode_name: an SxxExx token or any episode pattern *)
_looks_like_episode_name(name) ==
  name.sep = "SE" \/ EPISODE_PATTERNS_search(name) # <<>>

(* An inference that looks at the year only. *)
_movie_reasons_year_only(f, present) ==
  /\ ~_looks_like_episode_name(f.name)
  /\ f.name.year

(* _movie_reasons: TRUE when the list of reasons is not empty.  The year is *)
(* searched in file_path.stem (name.year), the duration is 0 when the probe *)
(* fails.                                                                   *)
_movie_reasons(f, present) ==
  /\ ~_looks_like_episode_name(f.name)
  /\ \/ (IF present THEN f.dur ELSE 0) >= 3900
     \/ f.name.year

(* Lines 126-141 and 159-165, 192: from row `from` on, the rule loop up to  *)
(* the next row whose term matches (stage "rule"); with no such row the     *)
(* movie inference (stage "movie") or the quarantine (stage "quar").  The   *)
(* result is the locals before the with_lock that follows.                  *)
tv_next_stage(l, f, present, from) ==
  LET hits == {j \in from..Len(Rules) : row_matches(Rules[j], f.name)} IN
  IF hits # {}
  THEN LET j == CHOOSE x \in hits : \A y \in hits : x <= y
       IN [l EXCEPT !.rowi = j, !.row = Rules[j], !.media = "tv", !.stage = "rule"]
  ELSE [l EXCEPT !.rowi = Len(Rules) + 1,
                 !.stage = IF _movie_reasons(f, present) THEN "movie" ELSE "quar"]

Bump(c, field) == [c EXCEPT ![field] = @ + 1]

(* Seconds in a day (retention.py, line 24). *)
DaySeconds == 86400

(* FAILURE_RETENTION_DAYS of the configuration. *)
FAILURE_RETENTION_DAYS == 2

(* int((now - fp.stat().st_mtime) // 86400) *)
age_days(f) == (now - f.mtime) \div DaySeconds

(* A sweep that keeps a file on the day it reaches the threshold. *)
enforce_failure_retention_late(entries) ==
  {e \in entries : ~(age_days(e.f) > FAILURE_RETENTION_DAYS)}

(* enforce_failure_retention: what is left of the tree under FAILURE_DIR    *)
(* after every file of at least FAILURE_RETENTION_DAYS days is unlinked.    *)
enforce_failure_retention(entries) ==
  {e \in entries : ~(age_days(e.f) >= FAILURE_RETENTION_DAYS)}

(* A main that goes to the rule table without the retention sweep. *)
MainStartNoSweep(p) ==
  /\ pc[p] = "start"
  /\ fail' = fail
  /\ \E csv_ok \in BOOLEAN :
       IF csv_ok
       THEN /\ todo' = [todo EXCEPT ![p] = candidates(sorted_iterdir(iterdir("sub")))]
            /\ loc' = [loc EXCEPT ![p] =
                         [InitLoc EXCEPT !.walker = "mv", !.wd = "sub",
                            !.skipped = skipped_markers(sorted_iterdir(iterdir("sub")))]]
            /\ pc' = [pc EXCEPT ![p] = "loop"]
       ELSE /\ todo' = todo
            /\ loc' = [loc EXCEPT ![p] = InitLoc]
            /\ pc' = [pc EXCEPT ![p] = "done"]
  /\ UNCHANGED <<root, sub, dest, tmp, locks, cur, cnt, dest0, drops, runs, now, argv,
               VMAF_CRF_CACHE, unreachable, tmpdir>>

(* main, lines 241-263: the retention sweep, then the rule table is read,   *)
(* then process_directory_movies_any lists the movie subdirectory.  With    *)
(* the rule table missing or unreadable main returns at line 252 or 258.    *)
MainStart(p) ==
  /\ pc[p] = "start"
  /\ fail' = enforce_failure_retention(fail)
  /\ \E csv_ok \in BOOLEAN :
       IF csv_ok
       THEN /\ todo' = [todo EXCEPT ![p] = candidates(sorted_iterdir(iterdir("sub")))]
            /\ loc' = [loc EXCEPT ![p] =
                         [InitLoc EXCEPT !.walker = "mv", !.wd = "sub",
                            !.skipped = skipped_markers(sorted_iterdir(iterdir("sub")))]]
            /\ pc' = [pc EXCEPT ![p] = "loop"]
       ELSE /\ todo' = todo
            /\ loc' = [loc EXCEPT ![p] = InitLoc]
            /\ pc' = [pc EXCEPT ![p] = "done"]
  /\ UNCHANGED <<root, sub, dest, tmp, locks, cur, cnt, dest0, drops, runs, now, argv,
               VMAF_CRF_CACHE, unreachable, tmpdir>>

(* main, line 266: process_directory_tv_via_csv lists ROOT_DIR. *)
ListRoot(p) ==
  /\ pc[p] = "loop"
  /\ loc[p].walker = "mv"
  /\ todo[p] = <<>>
  /\ todo' = [todo EXCEPT ![p] = candidates(sorted_iterdir(iterdir("root")))]
  /\ loc' = [loc EXCEPT ![p] =
               [InitLoc EXCEPT !.walker = "tv", !.wd = "root",
                  !.skipped = skipped_markers(sorted_iterdir(iterdir("root")))]]
  /\ UNCHANGED <<root, sub, dest, fail, tmp, locks, pc, cur, cnt, dest0, drops, runs, now, argv,
               VMAF_CRF_CACHE, unreachable, tmpdir>>

(* The head of both loops (lines 55-70 and 102-118): the next path, the     *)
(* is_file test, the archive test, and in the movie walker the extension    *)
(* test.                                                                    *)
Pick(p) ==
  /\ pc[p] = "loop"
  /\ todo[p] # <<>>
  /\ LET f == Head(todo[p])
         l == loc[p]
         fresh == [InitLoc EXCEPT !.walker = l.walker, !.wd = l.wd]
     IN /\ cur' = [cur EXCEPT ![p] = f]
        /\ IF f \notin iterdir(l.wd)
           THEN pc' = pc /\ loc' = [loc EXCEPT ![p] = fresh]
           ELSE IF is_tar(f.name)
           THEN IF l.walker = "mv"
                THEN /\ pc' = [pc EXCEPT ![p] = "mv_tar"]
                     /\ loc' = [loc EXCEPT ![p] = [fresh EXCEPT !.stage = "tar"]]
                ELSE /\ pc' = [pc EXCEPT ![p] = "slot"]
                     /\ loc' = [loc EXCEPT ![p] = [fresh EXCEPT !.stage = "tar"]]
           ELSE IF l.walker = "mv" /\ suffix(f.name) \notin allowed_exts
           THEN /\ pc' = [pc EXCEPT ![p] = "mv_reject"]
                /\ loc' = [loc EXCEPT ![p] = [fresh EXCEPT !.stage = "reject"]]
           ELSE /\ pc' = [pc EXCEPT ![p] = "claim"]
                /\ loc' = [loc EXCEPT ![p] = fresh]
  /\ todo' = [todo EXCEPT ![p] = Tail(todo[p])]
  /\ UNCHANGED <<root, sub, dest, fail, tmp, locks, cnt, dest0, drops, runs, now, argv,
               VMAF_CRF_CACHE, unreachable, tmpdir>>

(* extract_videos_from_tar: the video members land in ROOT_DIR, the archive *)
(* goes to FAILURE_DIR/tv.                                                  *)
extract_videos_from_tar(wd, f) ==
  /\ LET without == IF wd = "root" THEN root \ {f} ELSE root
         landed == {g \in without : \A m \in f.members : m.name # g.name} \cup f.members
     IN root' = landed
  /\ sub' = IF wd = "sub" THEN sub \ {f} ELSE sub
  /\ fail' = PutEntry(fail, "tv", f)

(* Lines 60-64: the movie walker extracts an archive with no lock at all;   *)
(* an exception of the extraction is not caught.                            *)
MvTar(p) ==
  /\ pc[p] = "mv_tar"
  /\ IF cur[p] \in WdFiles(loc[p].wd)
     THEN /\ extract_videos_from_tar(loc[p].wd, cur[p])
          /\ cnt' = [cnt EXCEPT ![p] = Bump(@, "tar_successes")]
          /\ loc' = [loc EXCEPT ![p] = moving(loc[p], cur[p], TRUE, "loop")]
          /\ pc' = [pc EXCEPT ![p] = "utime"]
     ELSE /\ UNCHANGED <<root, sub, fail, cnt, loc>>
          /\ pc' = [pc EXCEPT ![p] = "exc"]
  /\ UNCHANGED <<dest, tmp, locks, todo, cur, dest0, drops, runs, now, argv,
               VMAF_CRF_CACHE, unreachable, tmpdir>>

(* Lines 66-70: the movie walker quarantines a file of another extension. *)
MvReject(p) ==
  /\ pc[p] = "mv_reject"
  /\ _move_to_failures(loc[p].wd, cur[p], FALSE)
  /\ cnt' = [cnt EXCEPT ![p] = Bump(@, "movie_failures")]
  /\ loc' = [loc EXCEPT ![p] = moving(loc[p], cur[p], FALSE, "loop")]
  /\ pc' = [pc EXCEPT ![p] = after_move(loc[p], cur[p], "loop")]
  /\ UNCHANGED <<dest, tmp, locks, todo, cur, dest0, drops, runs, now, argv,
               VMAF_CRF_CACHE, unreachable, tmpdir>>

(* file_sidecar_lock, lines 102-113: the exclusive create of <file>.lock,   *)
(* and in the TV walker the start of the rule loop.                         *)
file_sidecar_lock(p) ==
  /\ pc[p] = "claim"
  /\ LET path == ClaimPath(loc[p].wd, cur[p].name) IN
     IF open_excl_ok(path)
     THEN /\ locks' = locks \cup {[path |-> path, pid |-> p]}
          /\ IF loc[p].walker = "mv"
             THEN /\ loc' = [loc EXCEPT ![p].ours = TRUE, ![p].stage = "movie"]
                  /\ pc' = [pc EXCEPT ![p] = "slot"]
             ELSE /\ loc' = [loc EXCEPT ![p] =
                               tv_next_stage([loc[p] EXCEPT !.ours = TRUE,
                                                            !.matched = FALSE],
                                             cur[p], cur[p] \in WdFiles(loc[p].wd), 1)]
                  /\ pc' = [pc EXCEPT ![p] = "slot"]
     ELSE /\ locks' = {k \in locks : k.path \notin released_on_exit(FALSE, path)}
          /\ loc' = [loc EXCEPT ![p].ours = FALSE, ![p].denied = TRUE]
          /\ pc' = [pc EXCEPT ![p] = "loop"]
  /\ UNCHANGED <<root, sub, dest, fail, tmp, todo, cur, cnt, dest0, drops, runs, now, argv,
               VMAF_CRF_CACHE, unreachable, tmpdir>>

(* Which Slot a stage asks for. *)
SlotOf(stage) == IF stage = "movie" THEN "sub" ELSE "root"

(* with_lock, lines 83-88, and the "if not have_lock: continue" after it.   *)
(* In the rule loop the continue goes on with the next row.                 *)
with_lock(p) ==
  /\ pc[p] = "slot"
  /\ LET l == loc[p]
         path == SlotPath(SlotOf(l.stage))
     IN IF _lock_dir_atomic(path)
        THEN /\ locks' = locks \cup {[path |-> path, pid |-> p]}
             /\ loc' = [loc EXCEPT ![p].slot = SlotOf(l.stage)]
             /\ pc' = [pc EXCEPT ![p] = IF l.stage = "tar" THEN "tv_tar" ELSE "exists"]
        ELSE /\ locks' = {k \in locks : k.path \notin released_on_exit(FALSE, path)}
             /\ IF l.stage = "rule"
                THEN /\ loc' = [loc EXCEPT ![p] =
                                  tv_next_stage([l EXCEPT !.denied = TRUE], cur[p],
                                                cur[p] \in WdFiles(l.wd), l.rowi + 1)]
                     /\ pc' = pc
                ELSE /\ loc' = [loc EXCEPT ![p].denied = TRUE]
                     /\ pc' = [pc EXCEPT ![p] = IF l.stage = "tar" THEN "loop"
                                                ELSE "unclaim"]
  /\ UNCHANGED <<root, sub, dest, fail, tmp, todo, cur, cnt, dest0, drops, runs, now, argv,
               VMAF_CRF_CACHE, unreachable, tmpdir>>

(* Lines 111-117: the TV walker extracts an archive under the root Slot. *)
TvTar(p) ==
  /\ pc[p] = "tv_tar"
  /\ IF cur[p] \in WdFiles(loc[p].wd)
     THEN /\ extract_videos_from_tar(loc[p].wd, cur[p])
          /\ cnt' = [cnt EXCEPT ![p] = Bump(@, "tar_successes")]
          /\ loc' = [loc EXCEPT ![p] = moving(loc[p], cur[p], TRUE, "unslot")]
          /\ pc' = [pc EXCEPT ![p] = "utime"]
     ELSE /\ UNCHANGED <<root, sub, fail, loc>>
          /\ cnt' = [cnt EXCEPT ![p] = Bump(@, "tar_failures")]
          /\ pc' = [pc EXCEPT ![p] = "unslot"]
  /\ UNCHANGED <<dest, tmp, locks, todo, cur, dest0, drops, runs, now, argv,
               VMAF_CRF_CACHE, unreachable, tmpdir>>

(* A walker that goes on under the Slot without looking for the file. *)
ExistsUnchecked(p) ==
  /\ pc[p] = "exists"
  /\ LET l == loc[p]
         there == TRUE
     IN IF l.stage = "quar"
        THEN /\ _move_to_failures(l.wd, cur[p], TRUE)
             /\ cnt' = IF there THEN [cnt EXCEPT ![p] = Bump(@, "tv_failures")] ELSE cnt
             /\ loc' = [loc EXCEPT ![p] = moving(l, cur[p], TRUE, "unslot")]
             /\ pc' = [pc EXCEPT ![p] = after_move(l, cur[p], "unslot")]
        ELSE /\ UNCHANGED <<root, sub, fail>>
             /\ IF there
                THEN /\ cnt' = cnt
                     /\ loc' = IF l.stage = "movie"
                               THEN [loc EXCEPT ![p].media = "movie",
                                                ![p].row = MovieRow(FALSE)]
                               ELSE loc
                     /\ pc' = [pc EXCEPT ![p] = "pf_start"]
                ELSE /\ cnt' = IF l.walker = "mv"
                               THEN [cnt EXCEPT ![p] = Bump(@, "movie_failures")]
                               ELSE cnt
                     /\ loc' = loc
                     /\ pc' = [pc EXCEPT ![p] = "unslot"]
  /\ UNCHANGED <<dest, tmp, locks, todo, cur, dest0, drops, runs, now, argv,
               VMAF_CRF_CACHE, unreachable, tmpdir>>

(* The file_path.exists() tests under the Slot (lines 90, 146, 168, 196)    *)
(* and what follows them short of process_file: the quarantine of an        *)
(* unmatched file (line 198), the failure count of line 94.                 *)
Exists(p) ==
  /\ pc[p] = "exists"
  /\ LET l == loc[p]
         there == cur[p] \in WdFiles(l.wd)
     IN IF l.stage = "quar"
        THEN /\ _move_to_failures(l.wd, cur[p], TRUE)
             /\ cnt' = IF there THEN [cnt EXCEPT ![p] = Bump(@, "tv_failures")] ELSE cnt
             /\ loc' = [loc EXCEPT ![p] = moving(l, cur[p], TRUE, "unslot")]
             /\ pc' = [pc EXCEPT ![p] = after_move(l, cur[p], "unslot")]
        ELSE /\ UNCHANGED <<root, sub, fail>>
             /\ IF there
                THEN /\ cnt' = cnt
                     /\ loc' = IF l.stage = "movie"
                               THEN [loc EXCEPT ![p].media = "movie",
                                                ![p].row = MovieRow(FALSE)]
                               ELSE loc
                     /\ pc' = [pc EXCEPT ![p] = "pf_start"]
                ELSE /\ cnt' = IF l.walker = "mv"
                               THEN [cnt EXCEPT ![p] = Bump(@, "movie_failures")]
                               ELSE cnt
                     /\ loc' = loc
                     /\ pc' = [pc EXCEPT ![p] = "unslot"]
  /\ UNCHANGED <<dest, tmp, locks, todo, cur, dest0, drops, runs, now, argv,
               VMAF_CRF_CACHE, unreachable, tmpdir>>

(* The counters after process_file returns (lines 90-95, 148-157, 180-190). *)
AfterPF(p) ==
  /\ pc[p] = "pf_ret"
  /\ loc[p].walker \in {"mv", "tv"}
  /\ LET l == loc[p]
         field == IF l.media = "tv"
                  THEN (IF l.ret THEN "tv_successes" ELSE "tv_failures")
                  ELSE (IF l.ret THEN "movie_successes" ELSE "movie_failures")
     IN /\ cnt' = [cnt EXCEPT ![p] = Bump(@, field)]
        /\ loc' = [loc EXCEPT ![p].matched = (l.stage = "rule")]
  /\ pc' = [pc EXCEPT ![p] = "unslot"]
  /\ dest0' = [dest0 EXCEPT ![p] = {}]
  /\ UNCHANGED <<root, sub, dest, fail, tmp, locks, todo, cur, drops, runs, now, argv,
               VMAF_CRF_CACHE, unreachable, tmpdir>>

(* A with block that leaves its Slot marker to be unlinked later. *)
UnslotLate(p) ==
  /\ pc[p] = "unslot"
  /\ locks' = locks
  /\ LET l == loc[p] IN
     IF l.stage = "tar"
     THEN /\ pc' = [pc EXCEPT ![p] = "loop"]
          /\ loc' = [loc EXCEPT ![p].slot = "none"]
     ELSE IF l.stage = "rule" /\ ~l.matched
     THEN /\ pc' = [pc EXCEPT ![p] = "slot"]
          /\ loc' = [loc EXCEPT ![p] =
                       tv_next_stage([l EXCEPT !.slot = "none"], cur[p],
                                     cur[p] \in WdFiles(l.wd), l.rowi + 1)]
     ELSE /\ pc' = [pc EXCEPT ![p] = "unclaim"]
          /\ loc' = [loc EXCEPT ![p].slot = "none"]
  /\ UNCHANGED <<root, sub, dest, fail, tmp, todo, cur, cnt, dest0, drops, runs, now, argv,
               VMAF_CRF_CACHE, unreachable, tmpdir>>

(* with_lock, lines 89-91, and _unlock_dir_fd: the Slot marker is unlinked. *)
(* A "continue" taken in the rule loop under the Slot goes to the next row. *)
Unslot(p) ==
  /\ pc[p] = "unslot"
  /\ locks' = {k \in locks :
                k.path \notin released_on_exit(loc[p].slot # "none", SlotPath(loc[p].slot))}
  /\ LET l == loc[p] IN
     IF l.stage = "tar"
     THEN /\ pc' = [pc EXCEPT ![p] = "loop"]
          /\ loc' = [loc EXCEPT ![p].slot = "none"]
     ELSE IF l.stage = "rule" /\ ~l.matched
     THEN /\ pc' = [pc EXCEPT ![p] = "slot"]
          /\ loc' = [loc EXCEPT ![p] =
                       tv_next_stage([l EXCEPT !.slot = "none"], cur[p],
                                     cur[p] \in WdFiles(l.wd), l.rowi + 1)]
     ELSE /\ pc' = [pc EXCEPT ![p] = "unclaim"]
          /\ loc' = [loc EXCEPT ![p].slot = "none"]
  /\ UNCHANGED <<root, sub, dest, fail, tmp, todo, cur, cnt, dest0, drops, runs, now, argv,
               VMAF_CRF_CACHE, unreachable, tmpdir>>

(* file_sidecar_lock, lines 115-123: the sidecar is unlinked by the process *)
(* that created it; after a failed create nothing is unlinked.              *)
Unclaim(p) ==
  /\ pc[p] = "unclaim"
  /\ locks' = {k \in locks :
                k.path \notin released_on_exit(loc[p].ours,
                                               ClaimPath(loc[p].wd, cur[p].name))}
  /\ loc' = [loc EXCEPT ![p].ours = FALSE]
  /\ pc' = [pc EXCEPT ![p] = "loop"]
  /\ UNCHANGED <<root, sub, dest, fail, tmp, todo, cur, cnt, dest0, drops, runs, now, argv,
               VMAF_CRF_CACHE, unreachable, tmpdir>>

(* main, lines 269-284: the summary, get_tmp_dir with its stale cleanup and *)
(* the removal of the process's own working directory (cleaned records     *)
(* that shutil.rmtree was called).                                         *)
Finish(p) ==
  /\ pc[p] = "loop"
  /\ loc[p].walker = "tv"
  /\ todo[p] = <<>>
  /\ tmp' = [get_tmp_dir_files(p) EXCEPT ![p] = {}]
  /\ tmpdir' = [get_tmp_dir_mtimes(p) EXCEPT ![p] = NoTmpDir]
  /\ pc' = [pc EXCEPT ![p] = "done"]
  /\ cur' = [cur EXCEPT ![p] = NoFile]
  /\ loc' = [loc EXCEPT ![p] = [InitLoc EXCEPT !.cleaned = TRUE]]
  /\ UNCHANGED <<root, sub, dest, fail, locks, todo, cnt, dest0, drops, runs, now, argv,
               VMAF_CRF_CACHE, unreachable>>

(* An exception that ends the process with no finally clause run. *)
UnwindNoRelease(p) ==
  /\ pc[p] = "exc"
  /\ pc' = [pc EXCEPT ![p] = "crashed"]
  /\ UNCHANGED <<root, sub, dest, fail, tmp, locks, todo, cur, loc, cnt, dest0,
                 drops, runs, now, argv,
               VMAF_CRF_CACHE, unreachable, tmpdir>>

(* An exception leaves the with blocks (their finally clauses release the   *)
(* Slot, then the Claim) and, main catching nothing, ends the process.      *)
Unwind(p) ==
  /\ pc[p] = "exc"
  /\ IF loc[p].slot # "none"
     THEN /\ locks' = {k \in locks :
                        k.path \notin released_on_exit(TRUE, SlotPath(loc[p].slot))}
          /\ loc' = [loc EXCEPT ![p].slot = "none"]
          /\ pc' = pc
     ELSE IF loc[p].ours
     THEN /\ locks' = {k \in locks :
                        k.path \notin released_on_exit(TRUE, ClaimPath(loc[p].wd,
                                                                       cur[p].name))}
          /\ loc' = [loc EXCEPT ![p].ours = FALSE]
          /\ pc' = pc
     ELSE /\ locks' = locks
          /\ loc' = loc
          /\ pc' = [pc EXCEPT ![p] = "crashed"]
  /\ UNCHANGED <<root, sub, dest, fail, tmp, todo, cur, cnt, dest0, drops, runs, now, argv,
               VMAF_CRF_CACHE, unreachable, tmpdir>>

Init ==
  /\ sub = { File(FilmName, 1, "h264"),
             File(NotesName, 2, "none"),
             Tar(PackName, 3, {}) }
  /\ root = { File(Show10Mkv, 4, "h264"),
              File(Show10Mp4, 5, "hevc"),
              Tar(PackName, 6, {File(MiscName, 7, "h264"), File(FilmName, 8, "hevc")}) }
  /\ dest = {}
  /\ fail = {}
  /\ tmp = [p \in Procs |-> {}]
  /\ locks = {}
  /\ pc = [p \in Procs |-> "start"]
  /\ todo = [p \in Procs |-> <<>>]
  /\ cur = [p \in Procs |-> NoFile]
  /\ loc = [p \in Procs |-> InitLoc]
  /\ cnt = [p \in Procs |-> ZeroCounters]
  /\ dest0 = [p \in Procs |-> {}]
  /\ drops = 0
  /\ runs = 0
  /\ now = 0
  /\ argv = [p \in Procs |-> {}]
  /\ VMAF_CRF_CACHE = [p \in Procs |-> {}]
  /\ unreachable = {}
  /\ tmpdir = [p \in Procs |-> NoTmpDir]

Next ==
  \E p \in Procs :
    \/ MainStart(p)
    \/ ListRoot(p)
    \/ Pick(p)
    \/ MvTar(p)
    \/ MvReject(p)
    \/ file_sidecar_lock(p)
    \/ with_lock(p)
    \/ TvTar(p)
    \/ Exists(p)
    \/ process_file(p)
    \/ os_utime(p)
    \/ AfterPF(p)
    \/ Unslot(p)
    \/ Unclaim(p)
    \/ Finish(p)
    \/ Unwind(p)

Spec == Init /\ [][Next]_vars

(* ------------------------------------------- faults and repeated runs *)

MaxRuns == 1

(* shutil.move at line 182 or 225 raises (the destination cannot be        *)
(* written, the device is full): process_file catches only                 *)
(* CalledProcessError, so the exception leaves it.                         *)
PFMoveRaises(p) ==
  /\ pc[p] \in {"pf_move", "pf_commit"}
  /\ pc' = [pc EXCEPT ![p] = "exc"]
  /\ UNCHANGED <<root, sub, dest, fail, tmp, locks, todo, cur, loc, cnt, dest0,
                 drops, runs, now, argv,
               VMAF_CRF_CACHE, unreachable, tmpdir>>

(* The process is killed while it holds a lock (SIGKILL, power loss): no   *)
(* finally clause runs.  Its markers stay; the process id written in them  *)
(* (here 0) is that of no running process.                                 *)
Kill(p) ==
  /\ \E k \in locks : k.pid = p
  /\ locks' = {[path |-> k.path, pid |-> IF k.pid = p THEN 0 ELSE k.pid] : k \in locks}
  /\ pc' = [pc EXCEPT ![p] = "killed"]
  /\ todo' = [todo EXCEPT ![p] = <<>>]
  /\ cur' = [cur EXCEPT ![p] = NoFile]
  /\ loc' = [loc EXCEPT ![p] = InitLoc]
  /\ dest0' = [dest0 EXCEPT ![p] = {}]
  /\ UNCHANGED <<root, sub, dest, fail, tmp, cnt, drops, runs, now, argv,
               VMAF_CRF_CACHE, unreachable, tmpdir>>

(* The scheduler starts main again after a run has ended: a new process    *)
(* with its own counters and its own working area.                         *)
Restart(p) ==
  /\ pc[p] \in {"done", "crashed", "killed"}
  /\ runs < MaxRuns
  /\ runs' = runs + 1
  /\ pc' = [pc EXCEPT ![p] = "start"]
  /\ todo' = [todo EXCEPT ![p] = <<>>]
  /\ cur' = [cur EXCEPT ![p] = NoFile]
  /\ loc' = [loc EXCEPT ![p] = InitLoc]
  /\ cnt' = [cnt EXCEPT ![p] = ZeroCounters]
  /\ tmp' = [tmp EXCEPT ![p] = {}]
  /\ dest0' = [dest0 EXCEPT ![p] = {}]
  /\ VMAF_CRF_CACHE' = [VMAF_CRF_CACHE EXCEPT ![p] = {}]
  /\ tmpdir' = [tmpdir EXCEPT ![p] = NoTmpDir]
  /\ UNCHANGED <<root, sub, dest, fail, locks, drops, now, argv, unreachable>>

(* An inbox with no archive and no file of another extension: MvTar,       *)
(* MvReject and TvTar are never enabled on it and are left out of NextRuns. *)
InitRuns ==
  /\ sub = { File(FilmName, 1, "hevc") }
  /\ root = { File(Show10Mkv, 2, "h264"), File(Show10Mp4, 3, "h264") }
  /\ dest = {}
  /\ fail = {}
  /\ tmp = [p \in Procs |-> {}]
  /\ locks = {}
  /\ pc = [p \in Procs |-> "start"]
  /\ todo = [p \in Procs |-> <<>>]
  /\ cur = [p \in Procs |-> NoFile]
  /\ loc = [p \in Procs |-> InitLoc]
  /\ cnt = [p \in Procs |-> ZeroCounters]
  /\ dest0 = [p \in Procs |-> {}]
  /\ drops = 0
  /\ runs = 0
  /\ now = 0
  /\ argv = [p \in Procs |-> {}]
  /\ VMAF_CRF_CACHE = [p \in Procs |-> {}]
  /\ unreachable = {}
  /\ tmpdir = [p \in Procs |-> NoTmpDir]

NextRuns ==
  \E p \in Procs :
    \/ MainStart(p)
    \/ ListRoot(p)
    \/ Pick(p)
    \/ file_sidecar_lock(p)
    \/ with_lock(p)
    \/ Exists(p)
    \/ process_file(p)
    \/ os_utime(p)
    \/ PFMoveRaises(p)
    \/ AfterPF(p)
    \/ Unslot(p)
    \/ Unclaim(p)
    \/ Finish(p)
    \/ Unwind(p)
    \/ Kill(p)
    \/ Restart(p)

SpecRuns == InitRuns /\ [][NextRuns]_vars

(* --------------------------------------- one run alone on a drawn inbox *)

MaxInbox == 2

(* Files the movie subdirectory may hold at the start of the run. *)
ClassifySub ==
  {File(FilmName, 8, "hevc"), File(NotesName, 9, "none"), Tar(PackGzName, 13, {})}

(* Files ROOT_DIR may hold at the start of the run: names with and without  *)
(* a rule term, an episode number, a year, a video extension; durations     *)
(* below and above the 3900 seconds of _movie_reasons.                      *)
ClassifyRoot ==
  { File(Show10Txt, 1, "none"),
    File(NotesName, 2, "none"),
    File(FilmName, 3, "hevc"),
    File(MiscName, 4, "h264"),
    [File(MiscName, 5, "h264") EXCEPT !.dur = 4000],
    File(OtherName, 6, "h264"),
    [File(OtherName, 7, "h264") EXCEPT !.dur = 4000],
    File(Show10Mkv, 10, "h264"),
    File(Show10Mp4, 11, "av1"),
    File(ClipName, 12, "h264"),
    Tar(PackGzName, 14, {File(MiscName, 15, "h264")}) }

(* A directory holds at most one file of a name. *)
IsDirectory(S) == \A f, g \in S : f.name = g.name => f = g

InitClassify ==
  /\ sub \in SUBSET ClassifySub
  /\ root \in {S \in SUBSET ClassifyRoot : Cardinality(S) <= MaxInbox /\ IsDirectory(S)}
  /\ dest = {}
  /\ fail = {}
  /\ tmp = [p \in Procs |-> {}]
  /\ locks = {}
  /\ pc = [p \in Procs |-> IF p = 1 THEN "start" ELSE "done"]
  /\ todo = [p \in Procs |-> <<>>]
  /\ cur = [p \in Procs |-> NoFile]
  /\ loc = [p \in Procs |-> InitLoc]
  /\ cnt = [p \in Procs |-> ZeroCounters]
  /\ dest0 = [p \in Procs |-> {}]
  /\ drops = 0
  /\ runs = 0
  /\ now = 0
  /\ argv = [p \in Procs |-> {}]
  /\ VMAF_CRF_CACHE = [p \in Procs |-> {}]
  /\ unreachable = {}
  /\ tmpdir = [p \in Procs |-> NoTmpDir]

(* The steps of a run whose inbox holds no file with the suffix .tar and    *)
(* that no other run disturbs: the archive branches and the unwinding of an *)
(* exception are never enabled.                                             *)
NextClassify ==
  \E p \in Procs :
    \/ MainStart(p)
    \/ ListRoot(p)
    \/ Pick(p)
    \/ MvReject(p)
    \/ file_sidecar_lock(p)
    \/ with_lock(p)
    \/ Exists(p)
    \/ process_file(p)
    \/ os_utime(p)
    \/ AfterPF(p)
    \/ Unslot(p)
    \/ Unclaim(p)
    \/ Finish(p)

SpecClassify == InitClassify /\ [][NextClassify]_vars

(* ------------------------------------ process_file on names and offsets *)

MaxEpisode == 14

MaxOffset == 14

(* "show - NN [1080p].mkv", "show - NNv2 [1080p].mkv", "show ENN.mkv",       *)
(* "show ENNv2.mkv", "show - S01ENN [1080p].mkv", "show - S01ENNv2 [...]"   *)
(* for the numbers 00 to MaxEpisode.                                        *)
NamingNames ==
  { Name(ShowKey, sep, IF sep = "SE" THEN 1 ELSE 0, n, v, "mkv") :
      sep \in {"dash", "E", "SE"}, n \in 0..MaxEpisode, v \in {0, 2} }

(* A row of the rule table with the given Offset. *)
OffsetRow(o) == [Rules[1] EXCEPT !.Offset = o]

(* "show - S01E10 [1080p_AV1_...].mkv" already in the season directory. *)
NamingShelf ==
  Entry(final_dest_dir("tv", Rules[1], Show10Mkv),
        File([Name(ShowKey, "SE", 1, 10, 0, "mkv") EXCEPT !.enc = TRUE], 2, "av1"))

InitNaming ==
  /\ root \in {{File(n, 1, c)} : n \in NamingNames, c \in DropCodecs}
  /\ sub = {}
  /\ dest \in {{}, {NamingShelf}}
  /\ fail = {}
  /\ tmp = [p \in Procs |-> {}]
  /\ locks = {}
  /\ pc = [p \in Procs |-> IF p = 1 THEN "idle" ELSE "done"]
  /\ todo = [p \in Procs |-> <<>>]
  /\ cur = [p \in Procs |-> NoFile]
  /\ loc = [p \in Procs |-> [InitLoc EXCEPT !.walker = "call"]]
  /\ cnt = [p \in Procs |-> ZeroCounters]
  /\ dest0 = [p \in Procs |-> {}]
  /\ drops = 0
  /\ runs = 0
  /\ now = 0
  /\ argv = [p \in Procs |-> {}]
  /\ VMAF_CRF_CACHE = [p \in Procs |-> {}]
  /\ unreachable = {}
  /\ tmpdir = [p \in Procs |-> NoTmpDir]

(* process_file(file_path, row, media_type="tv") with a row of any Offset,  *)
(* negative, zero or positive.                                              *)
NamingCall(p) ==
  /\ pc[p] = "idle"
  /\ \E f \in root, o \in (0 - MaxOffset)..MaxOffset :
       /\ cur' = [cur EXCEPT ![p] = f]
       /\ loc' = [loc EXCEPT ![p] = [InitLoc EXCEPT !.walker = "call", !.wd = "root",
                                                    !.media = "tv",
                                                    !.row = OffsetRow(o)]]
  /\ pc' = [pc EXCEPT ![p] = "pf_start"]
  /\ UNCHANGED <<root, sub, dest, fail, tmp, locks, todo, cnt, dest0, drops, runs, now, argv,
               VMAF_CRF_CACHE, unreachable, tmpdir>>

NextNaming ==
  \E p \in Procs : NamingCall(p) \/ process_file(p) \/ os_utime(p) \/ PFReturn(p)

SpecNaming == InitNaming /\ [][NextNaming]_vars

(* ------------------------------------- one run on an aged quarantine tree *)

MaxDays == 4

(* "old - NN [1080p].mkv", last modified at the start of day NN - 1. *)
OldFile(i) ==
  [File(Name(<<"old">>, "dash", 0, i, 0, "mkv"), 20 + i, "h264")
     EXCEPT !.mtime = (i - 1) * DaySeconds]

(* The tree under FAILURE_DIR when the run starts. *)
QuarantineAtStart ==
  {Entry("tv", OldFile(1)), Entry("movie", OldFile(2)), Entry("tv", OldFile(3))}

(* The times at which the run may start: the first and the last second of  *)
(* each day.                                                               *)
RetentionTimes ==
  {d * DaySeconds + r : d \in 0..MaxDays, r \in {0, DaySeconds - 1}}

InitRetention ==
  /\ sub = {}
  /\ root \in SUBSET {File(Show10Mkv, 1, "h264"), File(Show10Mp4, 2, "hevc"),
                      File(MiscName, 4, "h264")}
  /\ dest = {}
  /\ fail = QuarantineAtStart
  /\ tmp = [p \in Procs |-> {}]
  /\ locks = {}
  /\ pc = [p \in Procs |-> IF p = 1 THEN "start" ELSE "done"]
  /\ todo = [p \in Procs |-> <<>>]
  /\ cur = [p \in Procs |-> NoFile]
  /\ loc = [p \in Procs |-> InitLoc]
  /\ cnt = [p \in Procs |-> ZeroCounters]
  /\ dest0 = [p \in Procs |-> {}]
  /\ drops = 0
  /\ runs = 0
  /\ now \in RetentionTimes
  /\ argv = [p \in Procs |-> {}]
  /\ VMAF_CRF_CACHE = [p \in Procs |-> {}]
  /\ unreachable \in SUBSET PLEX_REFRESH_URLS
  /\ tmpdir = [p \in Procs |-> NoTmpDir]

(* The steps of a run alone on an inbox with no archive and an empty movie *)
(* subdirectory.                                                           *)
NextRetention ==
  \E p \in Procs :
    \/ MainStart(p)
    \/ ListRoot(p)
    \/ Pick(p)
    \/ file_sidecar_lock(p)
    \/ with_lock(p)
    \/ Exists(p)
    \/ process_file(p)
    \/ os_utime(p)
    \/ AfterPF(p)
    \/ Unslot(p)
    \/ Unclaim(p)
    \/ Finish(p)

SpecRetention == InitRetention /\ [][NextRetention]_vars

(* ------------------------- process_file on rows, codecs and search answers *)

MaxQualityFiles == 2

(* "show - 10 [1080p].mkv" (the search answers 30), "show - 10 [1080p].mp4"  *)
(* (the search fails), "show E12.mkv" (no resolution tag, 34),               *)
(* "show - 13 [1080p].mkv" (hevc), "show - 14 [1080p].mkv" (av1),            *)
(* "show - 15 [1080p].mkv" (36).                                             *)
QualityFiles ==
  { File(Show10Mkv, 1, "h264"),
    [File(Show10Mp4, 2, "h264") EXCEPT !.vmaf = NoCrf],
    [File(Name(ShowKey, "E", 0, 12, 0, "mkv"), 3, "h264") EXCEPT !.vmaf = 34],
    File(Name(ShowKey, "dash", 0, 13, 0, "mkv"), 4, "hevc"),
    File(Name(ShowKey, "dash", 0, 14, 0, "mkv"), 5, "av1"),
    [File(Name(ShowKey, "dash", 0, 15, 0, "mkv"), 6, "h264") EXCEPT !.vmaf = 36] }

(* Rows as df.iterrows() gives them: a number, the adaptive sentinel in two *)
(* spellings or an empty cell as CRF, an empty Season or Offset cell, the   *)
(* show name in two spellings, move-only or not.                            *)
QualityRows ==
  { [Rules[1] EXCEPT !.CRF = crf, !.Show = show, !.MoveOnly = mo, !.blank = b,
                     !.Season = IF "Season" \in b THEN 0 ELSE 1] :
      crf \in {"30", "vmaf", "VMAF", ""}, show \in {"Show", "show"},
      mo \in {0, 1}, b \in {{}, {"Season"}, {"Offset"}} }

InitQuality ==
  /\ root \in {S \in SUBSET QualityFiles : Cardinality(S) <= MaxQualityFiles}
  /\ sub = {}
  /\ dest = {}
  /\ fail = {}
  /\ tmp = [p \in Procs |-> {}]
  /\ locks = {}
  /\ pc = [p \in Procs |-> IF p = 1 THEN "idle" ELSE "done"]
  /\ todo = [p \in Procs |-> <<>>]
  /\ cur = [p \in Procs |-> NoFile]
  /\ loc = [p \in Procs |-> [InitLoc EXCEPT !.walker = "call"]]
  /\ cnt = [p \in Procs |-> ZeroCounters]
  /\ dest0 = [p \in Procs |-> {}]
  /\ drops = 0
  /\ runs = 0
  /\ now = 0
  /\ argv \in {[p \in Procs |-> IF p = 1 THEN a ELSE {}] : a \in {{}, {"-r"}}}
  /\ VMAF_CRF_CACHE = [p \in Procs |-> {}]
  /\ unreachable = {}
  /\ tmpdir = [p \in Procs |-> NoTmpDir]

(* process_file(file_path, row, media_type="tv") for a file of the inbox. *)
QualityCall(p) ==
  /\ pc[p] = "idle"
  /\ \E f \in root, row \in QualityRows :
       /\ cur' = [cur EXCEPT ![p] = f]
       /\ loc' = [loc EXCEPT ![p] = [InitLoc EXCEPT !.walker = "call", !.wd = "root",
                                                    !.media = "tv", !.row = row]]
  /\ pc' = [pc EXCEPT ![p] = "pf_start"]
  /\ UNCHANGED <<root, sub, dest, fail, tmp, locks, todo, cnt, dest0, drops, runs, now,
                 argv, VMAF_CRF_CACHE, unreachable, tmpdir>>

NextQuality ==
  \E p \in Procs :
    QualityCall(p) \/ process_file(p) \/ os_utime(p) \/ PFReturn(p) \/ Unwind(p)

SpecQuality == InitQuality /\ [][NextQuality]_vars

(* ------------------------- two runs quarantining files of an aged inbox *)

(* Files that have been lying in the inbox since time 0: a file of another *)
(* extension in the movie subdirectory, two files no rule matches and no   *)
(* movie inference accepts in ROOT_DIR.                                    *)
InitSweep ==
  /\ sub = {File(NotesName, 1, "none")}
  /\ root = {File(MiscName, 2, "h264"), File(NotesName, 3, "none")}
  /\ dest = {}
  /\ fail = {}
  /\ tmp = [p \in Procs |-> {}]
  /\ locks = {}
  /\ pc = [p \in Procs |-> "start"]
  /\ todo = [p \in Procs |-> <<>>]
  /\ cur = [p \in Procs |-> NoFile]
  /\ loc = [p \in Procs |-> InitLoc]
  /\ cnt = [p \in Procs |-> ZeroCounters]
  /\ dest0 = [p \in Procs |-> {}]
  /\ drops = 0
  /\ runs = 0
  /\ now \in RetentionTimes
  /\ argv = [p \in Procs |-> {}]
  /\ VMAF_CRF_CACHE = [p \in Procs |-> {}]
  /\ unreachable = {}
  /\ tmpdir = [p \in Procs |-> NoTmpDir]

(* The steps of two runs on an inbox none of whose files reaches            *)
(* process_file or the archive branches.                                    *)
NextSweep ==
  \E p \in Procs :
    \/ MainStart(p)
    \/ ListRoot(p)
    \/ Pick(p)
    \/ MvReject(p)
    \/ file_sidecar_lock(p)
    \/ with_lock(p)
    \/ Exists(p)
    \/ os_utime(p)
    \/ Unslot(p)
    \/ Unclaim(p)
    \/ Finish(p)

SpecSweep == InitSweep /\ [][NextSweep]_vars

(* ------------------------------ two runs encoding while the clock advances *)

MaxTicks == 1

(* One movie in the movie subdirectory and one episode in ROOT_DIR, neither *)
(* of them in a codec that is moved as it is: their transcodes run under    *)
(* different Slots.                                                         *)
InitTmp ==
  /\ sub = {File(FilmName, 1, "h264")}
  /\ root = {File(Show10Mkv, 2, "h264")}
  /\ dest = {}
  /\ fail = {}
  /\ tmp = [p \in Procs |-> {}]
  /\ locks = {}
  /\ pc = [p \in Procs |-> "start"]
  /\ todo = [p \in Procs |-> <<>>]
  /\ cur = [p \in Procs |-> NoFile]
  /\ loc = [p \in Procs |-> InitLoc]
  /\ cnt = [p \in Procs |-> ZeroCounters]
  /\ dest0 = [p \in Procs |-> {}]
  /\ drops = 0
  /\ runs = 0
  /\ now = 0
  /\ argv = [p \in Procs |-> {}]
  /\ VMAF_CRF_CACHE = [p \in Procs |-> {}]
  /\ unreachable = {}
  /\ tmpdir = [p \in Procs |-> NoTmpDir]

(* A day passes. *)
Tick ==
  /\ now < MaxTicks * DaySeconds
  /\ now' = now + DaySeconds
  /\ UNCHANGED <<root, sub, dest, fail, tmp, locks, pc, todo, cur, loc, cnt, dest0, drops,
                 runs, argv, VMAF_CRF_CACHE, unreachable, tmpdir>>

(* The steps of two runs on an inbox whose files are all transcoded: no     *)
(* file is superseded, moved as it is, quarantined or extracted.            *)
NextTmp ==
  \/ Tick
  \/ \E p \in Procs :
       \/ MainStart(p)
       \/ ListRoot(p)
       \/ Pick(p)
       \/ file_sidecar_lock(p)
       \/ with_lock(p)
       \/ Exists(p)
       \/ PFStart(p)
       \/ PFVersionCheck(p)
       \/ PFProbe(p)
       \/ PFEncodeStart(p)
       \/ FfmpegOk(p)
       \/ FfmpegFail(p)
       \/ PFCommit(p)
       \/ PFUnlinkSource(p)
       \/ PFFinish(p)
       \/ PFEncodeFailed(p)
       \/ AfterPF(p)
       \/ Unslot(p)
       \/ Unclaim(p)
       \/ Finish(p)
       \/ Unwind(p)

SpecTmp == InitTmp /\ [][NextTmp]_vars

(* ------------------------------- two runs that are scheduled until they end *)

(* A Slot marker whose creator no longer runs (process id 0). *)
StaleSlot(slot) == [path |-> SlotPath(slot), pid |-> 0]

(* An archive with one episode in the movie subdirectory, another file of  *)
(* the same episode in ROOT_DIR, both in a codec that is moved as it is;   *)
(* no marker, or the stale marker of one of the Slots.                     *)
InitLive ==
  /\ sub = {Tar(PackName, 1, {File(Show10Mkv, 2, "hevc")})}
  /\ root = {File(Show10Mp4, 3, "hevc")}
  /\ dest = {}
  /\ fail = {}
  /\ tmp = [p \in Procs |-> {}]
  /\ locks \in {{}, {StaleSlot("root")}, {StaleSlot("sub")}}
  /\ pc = [p \in Procs |-> "start"]
  /\ todo = [p \in Procs |-> <<>>]
  /\ cur = [p \in Procs |-> NoFile]
  /\ loc = [p \in Procs |-> InitLoc]
  /\ cnt = [p \in Procs |-> ZeroCounters]
  /\ dest0 = [p \in Procs |-> {}]
  /\ drops = 0
  /\ runs = 0
  /\ now = 0
  /\ argv = [p \in Procs |-> {}]
  /\ VMAF_CRF_CACHE = [p \in Procs |-> {}]
  /\ unreachable = {}
  /\ tmpdir = [p \in Procs |-> NoTmpDir]

(* The steps of one run on such an inbox: nothing is transcoded, rejected   *)
(* for its extension or extracted by the TV walker, and a file that is      *)
(* moved as it is keeps its untagged name, which supersedes nothing.        *)
Run(p) ==
  \/ MainStart(p)
  \/ ListRoot(p)
  \/ Pick(p)
  \/ MvTar(p)
  \/ os_utime(p)
  \/ file_sidecar_lock(p)
  \/ with_lock(p)
  \/ Exists(p)
  \/ PFStart(p)
  \/ PFVersionCheck(p)
  \/ PFProbe(p)
  \/ PFMove(p)
  \/ PFFinish(p)
  \/ AfterPF(p)
  \/ Unslot(p)
  \/ Unclaim(p)
  \/ Finish(p)
  \/ Unwind(p)

NextLive == \E p \in Procs : Run(p)

(* Every call returns and every process is scheduled again and again: a run *)
(* that can take a step eventually takes one.                               *)
SpecLive == InitLive /\ [][NextLive]_vars /\ \A p \in Procs : WF_vars(Run(p))

(* ------------------------------------------------------------ properties *)

InProcessFile ==
  {"pf_ver", "pf_super", "pf_probe", "pf_move", "pf_fin", "pf_enc", "pf_encoding",
   "pf_commit", "pf_unlink", "pf_encfail"}

(* The version a file name carries: its vN suffix, 1 without one. *)
NameVersion(name) == IF name.ver > 0 THEN name.ver ELSE 1

(* The files of entries in dir that are tagged with exactly (season, episode). *)
TaggedFor(entries, dir, season, episode) ==
  {f \in Listing(entries, dir) :
     f.name.sep = "SE" /\ f.name.season = season /\ f.name.num = episode}

(* C1: at most one process holds the Claim on a path, the holder is the     *)
(* process that created the marker, and one marker exists per path: of two  *)
(* processes that attempt the same path at most one is told it holds it.    *)
C1_ClaimExclusive ==
  /\ \A p \in Procs :
       loc[p].ours =>
         [path |-> ClaimPath(loc[p].wd, cur[p].name), pid |-> p] \in locks
  /\ \A p, q \in Procs :
       (p # q /\ loc[p].ours /\ loc[q].ours) =>
         ClaimPath(loc[p].wd, cur[p].name) # ClaimPath(loc[q].wd, cur[q].name)
  /\ \A k1, k2 \in locks : k1.path = k2.path => k1 = k2

(* Two processes attempted the same path: p holds it, q was refused. *)
C1_Witness ==
  \E p, q \in Procs :
    /\ p # q
    /\ loc[p].ours
    /\ pc[q] = "loop" /\ loc[q].denied /\ ~loc[q].ours /\ loc[q].stage = ""
    /\ cur[q] = cur[p] /\ loc[q].wd = loc[p].wd

(* A process is about to extract, quarantine, transcode, move or delete. *)
Acting(p) ==
  \/ pc[p] \in {"mv_tar", "mv_reject", "tv_tar", "pf_start"} \cup InProcessFile
  \/ pc[p] = "exists" /\ loc[p].stage = "quar"

(* C2: a process that acts on a file (extracts it, quarantines it,          *)
(* transcodes, moves or deletes it) holds the Claim on that file and the    *)
(* Slot of the directory.                                                   *)
C2_BothLocksHeld ==
  \A p \in Procs :
    Acting(p) =>
      /\ loc[p].ours
      /\ [path |-> ClaimPath(loc[p].wd, cur[p].name), pid |-> p] \in locks
      /\ loc[p].slot # "none"
      /\ [path |-> SlotPath(loc[p].slot), pid |-> p] \in locks

(* C3: once a Claim or a Slot has been refused for the file of the current  *)
(* iteration, the process does nothing more with that file in this run: it  *)
(* does not get to process_file or to the quarantine with it, it moves      *)
(* nothing into quarantine or into the library, and it increments no        *)
(* counter.                                                                 *)
C3_SkippedWhenRefused ==
  [][\A p \in Procs :
       loc'[p].denied =>
         /\ ~Acting(p)'
         /\ loc[p].denied =>
              /\ cnt'[p] = cnt[p]
              /\ pc'[p] # pc[p] => (fail' = fail /\ dest' = dest)]_vars

(* C4: while a process is inside the sequence list the destination, move    *)
(* into it, delete older versions of a TV destination directory, every      *)
(* change of the content of that directory is a step of this process.       *)
C4_SlotSerialises ==
  [][\A p \in Procs :
       (pc[p] \in InProcessFile /\ loc[p].media = "tv") =>
         (Listing(dest', loc[p].dir) # Listing(dest, loc[p].dir) => pc'[p] # pc[p])]_vars

(* p has moved its file into the TV directory and is about to clean up      *)
(* while q asks for the same Slot for another file of the same show.        *)
C4_Witness ==
  \E p, q \in Procs :
    /\ p # q
    /\ pc[p] = "pf_fin" /\ loc[p].media = "tv"
    /\ cur[p] \in Listing(dest, loc[p].dir)
    /\ pc[q] = "slot" /\ loc[q].stage = "rule"
    /\ cur[q] # cur[p]
    /\ final_dest_dir("tv", loc[q].row, cur[q].name) = loc[p].dir

(* C5: a file of the library disappears or is replaced only by a step of a  *)
(* process whose candidate carries a strictly greater version, and the      *)
(* greatest version tagged for a (season, episode) never decreases.         *)
C5_NeverReplacedByOlder ==
  [][/\ \A e \in dest :
          e \notin dest' =>
            \E p \in Procs :
              pc'[p] # pc[p] /\ NameVersion(cur[p].name) > NameVersion(e.f.name)
     /\ \A e \in dest :
          e.f.name.sep = "SE" =>
            SetMax({NameVersion(f.name) :
                      f \in TaggedFor(dest', e.dir, e.f.name.season, e.f.name.num)})
              >= NameVersion(e.f.name)]_vars

(* The destination held, when process_file was entered, a file tagged with  *)
(* the candidate's (season, episode) whose version is not lower.            *)
C6_Premise(p) ==
  /\ Versioned(loc[p])
  /\ \E f \in TaggedFor(dest0[p], loc[p].dir, loc[p].row.Season, loc[p].info[1]) :
       NameVersion(f.name) >= loc[p].info[2]

(* C6: such a candidate is never probed, encoded or moved into the library; *)
(* process_file returns failure with the candidate in the TV quarantine and *)
(* gone from the inbox, the destination directory as it was.                *)
C6_SupersededQuarantined ==
  \A p \in Procs :
    C6_Premise(p) =>
      /\ pc[p] \in {"pf_ver", "pf_super", "utime", "pf_ret"}
      /\ ~loc[p].probed
      /\ tmp[p] = {}
      /\ Listing(dest, loc[p].dir) = Listing(dest0[p], loc[p].dir)
      /\ pc[p] = "pf_ret" =>
           /\ ~loc[p].ret
           /\ cur[p] \notin root
           /\ Entry("tv", cur[p]) \in fail

C6_Witness ==
  \E p \in Procs :
    /\ C6_Premise(p)
    /\ pc[p] = "pf_ret"
    /\ Entry("tv", cur[p]) \in fail
    /\ \E f \in TaggedFor(dest, loc[p].dir, loc[p].row.Season, loc[p].info[1]) :
         NameVersion(f.name) = loc[p].info[2]

(* C7: a candidate whose version is greater than that of every file tagged  *)
(* with its (season, episode) in the destination is not quarantined as      *)
(* superseded; after its commit the new file is in the destination and no   *)
(* file of that episode with a lower version is.                            *)
C7_NewerProceeds ==
  \A p \in Procs :
    ( /\ pc[p] \in InProcessFile \cup {"pf_ret"}
      /\ Versioned(loc[p])
      /\ \A f \in TaggedFor(dest0[p], loc[p].dir, loc[p].row.Season, loc[p].info[1]) :
           NameVersion(f.name) < loc[p].info[2] ) =>
      /\ pc[p] # "pf_super"
      /\ (pc[p] = "pf_ret" /\ loc[p].ret) =>
           /\ \E f \in Listing(dest, loc[p].dir) : f.id = cur[p].id
           /\ \A f \in TaggedFor(dest, loc[p].dir, loc[p].row.Season, loc[p].info[1]) :
                NameVersion(f.name) >= loc[p].info[2]

(* C8: when process_file returns success the destination directory holds at *)
(* most one file per tagged (season, episode).                              *)
C8_OneFilePerEpisode ==
  \A p \in Procs :
    (pc[p] = "pf_ret" /\ loc[p].ret /\ loc[p].media = "tv") =>
      \A f, g \in Listing(dest, loc[p].dir) :
        ( /\ f.name.sep = "SE" /\ g.name.sep = "SE"
          /\ f.name.season = g.name.season
          /\ f.name.num = g.name.num ) => f = g

(* C9: the library never holds an incomplete file, and while a transcode is *)
(* being run or has failed its output is not in the destination directory.  *)
C9_NoPartialInDest ==
  /\ \A e \in dest : e.f.st = "whole"
  /\ \A p \in Procs :
       ( \/ pc[p] \in {"pf_encoding", "pf_encfail"}
         \/ pc[p] = "pf_ret" /\ loc[p].ffmpeg = "failed" ) =>
         ~\E e \in dest : e.dir = loc[p].dir /\ e.f.id = cur[p].id

(* A transcode is running with its partial output in the working area and   *)
(* the library is not empty.                                                *)
C9_Witness ==
  \E p \in Procs :
    /\ pc[p] = "pf_encoding"
    /\ \E f \in tmp[p] : f.st = "partial" /\ f.name = loc[p].out
    /\ dest # {}

(* C10: when the transcode has failed, process_file returns failure with    *)
(* the partial output deleted, the source still in the inbox and not in     *)
(* quarantine, and the destination directory as it was.                     *)
C10_FailedEncodeLeavesSource ==
  \A p \in Procs :
    (pc[p] = "pf_ret" /\ loc[p].ffmpeg = "failed") =>
      /\ OutFiles(p) = {}
      /\ \A f \in tmp[p] : f.st # "partial"
      /\ ~loc[p].ret
      /\ cur[p] \in WdFiles(loc[p].wd)
      /\ Listing(dest, loc[p].dir) = Listing(dest0[p], loc[p].dir)
      /\ ~\E e \in fail : e.f.id = cur[p].id

C10_Witness ==
  \E p \in Procs :
    /\ pc[p] = "pf_ret" /\ loc[p].ffmpeg = "failed"
    /\ cur[p] \in root
    /\ dest # {}

(* C11: a process that is outside every lock scope (before its first file,  *)
(* between two files, after its run has ended normally or by an exception)  *)
(* has no marker of its own left, and one that has left the Slot scope has  *)
(* no Slot marker left.                                                     *)
C11_MarkersRemovedOnExit ==
  \A p \in Procs :
    /\ pc[p] \in {"start", "loop", "done", "crashed"} =>
         ~\E k \in locks : k.pid = p
    /\ pc[p] = "unclaim" =>
         ~\E k \in locks : k.pid = p /\ k.path.kind = "slot"

(* A run was ended by an exception raised inside process_file, under both  *)
(* locks, while the other process holds markers of its own.                *)
C11_Witness ==
  \E p, q \in Procs :
    /\ pc[p] = "crashed"
    /\ loc[p].stage \in {"rule", "movie"} /\ loc[p].dir # NoDir
    /\ ~\E k \in locks : k.pid = p
    /\ \E k \in locks : k.pid = q

(* C12: a marker created by a running process disappears only by a step of *)
(* that process; in particular a process that was refused a lock removes   *)
(* nothing when it leaves the scope.                                       *)
C12_OnlyCreatorRemoves ==
  [][\A k \in locks :
       (k.pid \in Procs /\ k \notin locks') =>
         (pc'[k.pid] # pc[k.pid] \/ loc'[k.pid] # loc[k.pid])]_vars

(* p was refused the root Slot for its last attempt on a file (the file is *)
(* still in the inbox), has left the scopes, and q still holds that Slot.  *)
C12_Witness ==
  \E p, q \in Procs :
    /\ p # q
    /\ pc[p] = "loop" /\ loc[p].denied /\ loc[p].stage = "quar"
    /\ cur[p] \in root
    /\ [path |-> SlotPath("root"), pid |-> q] \in locks

(* p holds the lock of this path. *)
Holds(p, path) ==
  \/ loc[p].ours /\ ClaimPath(loc[p].wd, cur[p].name) = path
  \/ loc[p].slot # "none" /\ SlotPath(loc[p].slot) = path

(* C13: a marker whose creator was killed stays for ever, no process ever  *)
(* holds its lock again, and the file a stale Claim guards stays where it  *)
(* is.                                                                     *)
C13_StaleMarkerStays ==
  [][\A k \in locks :
       k.pid = 0 =>
         /\ k \in locks'
         /\ \A p \in Procs : ~Holds(p, k.path)'
         /\ k.path.kind = "claim" =>
              \A f \in WdFiles(k.path.wd) :
                f.name = k.path.name => f \in WdFiles(k.path.wd)']_vars

(* After a restart a process was refused the Claim of a file whose marker  *)
(* is stale, and another was refused a stale Slot.                         *)
C13_Witness ==
  /\ runs >= 1
  /\ \E k \in locks, p \in Procs :
       /\ k.pid = 0 /\ k.path.kind = "claim"
       /\ pc[p] = "loop" /\ loc[p].denied /\ loc[p].stage = ""
       /\ ClaimPath(loc[p].wd, cur[p].name) = k.path
       /\ cur[p] \in WdFiles(loc[p].wd)
  /\ \E k \in locks : k.pid = 0 /\ k.path.kind = "slot"

(* C14: no failure in the handling of one file ends the run: a process     *)
(* never leaves its walk by an exception.                                  *)
C14_RunNeverAborts ==
  \A p \in Procs : pc[p] \notin {"exc", "crashed"}

(* C15: a run of main that has ended, on whatever path, has called the     *)
(* removal of its working area.                                            *)
C15_WorkingAreaCleaned ==
  \A p \in Procs : pc[p] \in {"done", "crashed"} => loc[p].cleaned

(* The first row of the rule table, in order, whose term matches the name. *)
FirstMatch(name) ==
  LET hits == {j \in 1..Len(Rules) : row_matches(Rules[j], name)}
  IN IF hits = {} THEN 0 ELSE CHOOSE x \in hits : \A y \in hits : x <= y

(* C16: a TV-root file is handed to process_file only under the first row  *)
(* of the rule table that matches its name.                                *)
C16_FirstRowWins ==
  \A p \in Procs :
    (pc[p] \in {"pf_start", "pf_ret"} \cup InProcessFile /\ loc[p].stage = "rule") =>
      loc[p].rowi = FirstMatch(cur[p].name)

(* C17: whichever walker scans it, a file that is not an archive and whose *)
(* extension is not an allowed video extension is never matched against    *)
(* the rule table and never reaches process_file.                          *)
C17_NonVideoNeverProcessed ==
  \A p \in Procs :
    (/\ loc[p].walker \in {"mv", "tv"}
     /\ pc[p] \in {"slot", "exists", "pf_start", "pf_ret"} \cup InProcessFile
     /\ loc[p].stage \in {"rule", "movie"})
    => (is_tar(cur[p].name) \/ cur[p].name.ext \in allowed_exts)

(* A TV-root file of the current iteration that no row of the table matches. *)
Unmatched(p) ==
  /\ loc[p].walker = "tv"
  /\ pc[p] \in {"slot", "exists", "unslot", "pf_start", "pf_ret"} \cup InProcessFile
  /\ loc[p].stage # "tar"
  /\ FirstMatch(cur[p].name) = 0

(* A suffix that reads as a year between 1900 and 2099. *)
YearExts == {"2019"}

(* The inference on the stem of the name, and the one on the whole name. *)
InferredByStem(f) ==
  ~_looks_like_episode_name(f.name) /\ (f.dur >= 3900 \/ f.name.year)

InferredByName(f) ==
  /\ ~_looks_like_episode_name(f.name)
  /\ (f.dur >= 3900 \/ f.name.year \/ f.name.ext \in YearExts)

Extracted(p) ==
  /\ loc[p].walker = "call"
  /\ pc[p] \in {"pf_ret"} \cup InProcessFile
  /\ loc[p].info # NoInfo

(* C19: with e the number in the file name and o the Offset of the row,    *)
(* the episode extract_episode_number_and_version returns is e when        *)
(* e - o < 1 and e - o otherwise.                                          *)
C19_OffsetCorrection ==
  \A p \in Procs :
    Extracted(p) =>
      LET e == cur[p].name.num
          o == loc[p].row.Offset
      IN loc[p].info[1] = (IF e - o < 1 THEN e ELSE e - o)

(* "show - 14 [1080p].mkv" with Offset 14 is episode 14, and the encode    *)
(* writes it as S01E14.                                                    *)
C19_Witness ==
  \E p \in Procs :
    /\ Extracted(p)
    /\ cur[p].name.num = 14
    /\ loc[p].row.Offset = 14
    /\ loc[p].info[1] = 14
    /\ loc[p].out.sep = "SE"
    /\ loc[p].out.num = 14

(* C20: whatever the file name and the Offset, an extracted episode number *)
(* and its version are at least 1.                                         *)
C20_EpisodeAndVersionPositive ==
  \A p \in Procs :
    Extracted(p) => (loc[p].info[1] >= 1 /\ loc[p].info[2] >= 1)

(* A call of process_file on the encode path that has built its output name. *)
Tagged(p) ==
  /\ loc[p].walker = "call"
  /\ pc[p] \in InProcessFile
  /\ loc[p].out # NoName

(* C21: a base name that already carries an SxxExx token comes back from   *)
(* tag_episode_in_name unchanged, and tagging the result of a tagging      *)
(* again, with the same original name, season and offset, changes nothing; *)
(* for the output name process_file has built and for every base name.     *)
C21_TaggingIdempotent ==
  \A p \in Procs :
    Tagged(p) =>
      LET l == loc[p]
          retag(b) == tag_episode_in_name(cur[p].name, b, l.row.Season, l.row.Offset)
      IN /\ retag(l.out) = l.out
         /\ cur[p].name.sep = "SE"
              => l.out = [build_output_name(cur[p].name) EXCEPT !.ext = "mkv"]
         /\ \A b \in NamingNames :
              /\ retag(retag(b)) = retag(b)
              /\ b.sep = "SE" => retag(b) = b

(* "show - 12 [1080p].mkv" with a positive Offset has been tagged with the *)
(* corrected number.                                                       *)
C21_Witness ==
  \E p \in Procs :
    /\ Tagged(p)
    /\ cur[p].name.sep = "dash"
    /\ cur[p].name.ver = 0
    /\ loc[p].row.Offset > 0
    /\ loc[p].out.sep = "SE"
    /\ loc[p].out.num = cur[p].name.num - loc[p].row.Offset

(* C22: a candidate whose name carries an explicit version N > 1 on its    *)
(* episode number ("show - 10v2 [1080p].mkv", "show E10v2.mkv") is given   *)
(* version N by the extraction process_file makes for its version check.   *)
C22_ExplicitVersionResolved ==
  \A p \in Procs :
    (/\ loc[p].walker = "call"
     /\ pc[p] \in InProcessFile
     /\ cur[p].name.sep \in {"dash", "E"}
     /\ cur[p].name.ver > 1)
    => (loc[p].info # NoInfo /\ loc[p].info[2] = cur[p].name.ver)

(* The age of a file in whole days: the largest d with d days elapsed      *)
(* since its last modification.                                            *)
WholeDays(f) ==
  CHOOSE d \in (0 - MaxDays - 3)..(MaxDays + 3) :
    d * DaySeconds <= now - f.mtime /\ now - f.mtime < (d + 1) * DaySeconds

(* C23: the sweep at the start of a run deletes a quarantined file exactly *)
(* when its age in whole days is at least the retention threshold.         *)
C23_RetentionThreshold ==
  [][\A p \in Procs :
       (pc[p] = "start" /\ pc'[p] # "start")
       => \A e \in fail :
            (e \notin fail') <=> (WholeDays(e.f) >= FAILURE_RETENTION_DAYS)]_vars

(* After the sweep a file aged exactly the threshold is gone and a file    *)
(* aged one day less is still there.                                       *)
C23_Witness ==
  \E p \in Procs, gone \in QuarantineAtStart, kept \in QuarantineAtStart :
    /\ pc[p] = "loop"
    /\ WholeDays(gone.f) = FAILURE_RETENTION_DAYS
    /\ gone \notin fail
    /\ WholeDays(kept.f) = FAILURE_RETENTION_DAYS - 1
    /\ kept \in fail

(* C24: process_file relocates the file as it is exactly when the row is   *)
(* move-only, or the probed codec is hevc or av1 and "-r" was not given;   *)
(* otherwise the quality is resolved and, until the transcode has          *)
(* returned, the source is where it was and the library is untouched.      *)
C24_EncodeNeedDecision ==
  \A p \in Procs :
    LET l == loc[p] IN
    /\ (l.walker = "call" /\ pc[p] \in {"pf_move", "pf_enc"})
         => (pc[p] = "pf_move"
               <=> (l.row.MoveOnly = 1
                    \/ (cur[p].codec \in {"hevc", "av1"} /\ "-r" \notin argv[p])))
    /\ (l.walker = "call" /\ pc[p] \in {"pf_enc", "pf_encoding"})
         => /\ l.crf # NoCrf
            /\ cur[p] \in root
            /\ dest = dest0[p]

(* An hevc file is on the encode path because "-r" was given. *)
C24_Witness ==
  \E p \in Procs :
    /\ loc[p].walker = "call"
    /\ pc[p] = "pf_encoding"
    /\ cur[p].codec = "hevc"
    /\ loc[p].row.MoveOnly = 0
    /\ "-r" \in argv[p]

(* A call of process_file that has resolved the quality of its encode. *)
Resolved(p) ==
  /\ loc[p].walker = "call"
  /\ pc[p] \in {"pf_enc", "pf_encoding", "pf_commit", "pf_unlink", "pf_encfail"}

(* C25: a row whose Season or Offset cell is empty is processed without    *)
(* error, and a row whose CRF cell is empty gets the quality the adaptive  *)
(* sentinel would get.                                                     *)
C25_AbsentFieldsDefault ==
  \A p \in Procs :
    LET l == loc[p] IN
    /\ (l.walker = "call" /\ l.row.blank # {}) => pc[p] \notin {"exc", "crashed"}
    /\ (Resolved(p) /\ l.row.CRF = "")
         => l.crf = determine_crf(VMAF_CRF_CACHE[p], [l.row EXCEPT !.CRF = "vmaf"],
                                  cur[p], TRUE, l.row.Show).crf

(* C26: in the resolution of a quality under the adaptive sentinel, a key  *)
(* already in the dictionary of the process gives the stored value without *)
(* a run of the search; a key not in it gives a run of the search, whose   *)
(* answer is stored when it is a value and not stored when it is a         *)
(* failure; and nothing stored is ever dropped.                            *)
C26_SearchCached ==
  [][\A p \in Procs :
       /\ VMAF_CRF_CACHE[p] \subseteq VMAF_CRF_CACHE'[p]
       /\ (pc[p] = "pf_probe" /\ pc'[p] = "pf_enc" /\ is_vmaf(loc[p].row.CRF))
            => LET key == [show |-> strip_lower(loc[p].row.Show),
                           res |-> detect_resolution_from_name(cur[p].name),
                           preset |-> PRESET_DEFAULT]
                   stored == {c \in VMAF_CRF_CACHE[p] : c.key = key}
               IN IF stored # {}
                  THEN /\ ~loc'[p].searched
                       /\ VMAF_CRF_CACHE'[p] = VMAF_CRF_CACHE[p]
                       /\ \E c \in stored : loc'[p].crf = c.crf - VmafMargin
                  ELSE /\ loc'[p].searched
                       /\ VMAF_CRF_CACHE'[p] =
                            (IF cur[p].vmaf = NoCrf THEN VMAF_CRF_CACHE[p]
                             ELSE VMAF_CRF_CACHE[p] \cup {[key |-> key, crf |-> cur[p].vmaf]})]_vars

(* "show - 15 [1080p].mkv", for which the search would answer 36, has got  *)
(* the 30 stored for its key, less 4, without a search.                    *)
C26_Witness ==
  \E p \in Procs :
    /\ Resolved(p)
    /\ is_vmaf(loc[p].row.CRF)
    /\ ~loc[p].searched
    /\ cur[p].vmaf = 36
    /\ loc[p].crf = 30 - VmafMargin
    /\ \A c \in VMAF_CRF_CACHE[p] : c.crf = 30

C28_ArchiveFirst ==
  \A p \in Procs :
    (loc[p].walker \in {"mv", "tv"} /\ cur[p].name.ext \in {"tar", "tar.gz"})
    => /\ pc[p] \notin {"mv_reject", "claim", "exists", "pf_start", "pf_ret"}
                      \cup InProcessFile
       /\ pc[p] \in {"slot", "unslot"} => loc[p].stage = "tar"

(* The markers of a kind that process p has created and not yet removed. *)
Held(p, kind) == {k \in locks : k.pid = p /\ k.path.kind = kind}

(* C29: a process never holds more than one Claim or more than one Slot,   *)
(* never asks for a Claim while it holds a Slot, and never removes its     *)
(* Claim while it still holds a Slot.                                      *)
C29_ClaimBeforeSlot ==
  [][\A p \in Procs :
       /\ Cardinality(Held(p, "claim")) <= 1
       /\ Cardinality(Held(p, "slot")) <= 1
       /\ pc[p] = "claim" => Held(p, "slot") = {}
       /\ (\E k \in Held(p, "claim") : k \notin locks') => Held(p, "slot") = {}]_vars

(* A process that held both has removed its Slot and still holds its Claim. *)
C29_Witness ==
  \E p \in Procs :
    /\ pc[p] = "unclaim"
    /\ loc[p].ret
    /\ Held(p, "claim") # {}
    /\ Held(p, "slot") = {}

(* C30: the first step of a run is the retention sweep, whole; until it is *)
(* done the process has created no marker and moved nothing, and after it  *)
(* the process never sweeps again.                                         *)
C30_SweepOnceFirst ==
  [][\A p \in Procs :
       /\ pc[p] = "start"
            => /\ Held(p, "claim") \cup Held(p, "slot") = {}
               /\ cnt[p] = ZeroCounters
               /\ pc'[p] # "start"
                    => /\ fail' = {e \in fail : WholeDays(e.f) < FAILURE_RETENTION_DAYS}
                       /\ UNCHANGED <<root, sub, dest, locks>>
       /\ pc[p] \notin {"start", "done"}
            => /\ pc'[p] # "start"
               /\ \A e \in fail :
                    \E e2 \in fail' : e2.dir = e.dir /\ e2.f.name = e.f.name]_vars

(* The process holds a Claim and a Slot and a file that was past the       *)
(* threshold when the run started is gone.                                 *)
C30_Witness ==
  \E p \in Procs :
    /\ Held(p, "claim") # {}
    /\ Held(p, "slot") # {}
    /\ \E e \in QuarantineAtStart :
         /\ WholeDays(e.f) >= FAILURE_RETENTION_DAYS
         /\ e \notin fail

(* The content of the current candidate of p is, complete, in the directory *)
(* process_file resolved for it.                                            *)
Committed(p) ==
  \E e \in dest : /\ e.dir = loc[p].dir
                  /\ e.f.id = cur[p].id
                  /\ e.f.st = "whole"

(* C31: the refresh notification is fired only by the step that ends a      *)
(* successful process_file, when the file is already in its destination; it *)
(* is never fired on a call that returns failure; and whichever endpoints   *)
(* fail, that step returns success, logs one warning per failed endpoint    *)
(* and leaves the committed file in the destination.                        *)
C31_RefreshAfterCommit ==
  [][\A p \in Procs :
       /\ (loc'[p].refreshed /\ ~loc[p].refreshed)
            => (pc[p] = "pf_fin" /\ Committed(p))
       /\ loc'[p].refreshed => loc'[p].ret
       /\ (pc[p] = "pf_fin" /\ pc'[p] # "pf_fin")
            => /\ pc'[p] = "pf_ret"
               /\ loc'[p].ret
               /\ loc'[p].refreshed
               /\ loc'[p].warned = PLEX_REFRESH_URLS \cap unreachable
               /\ Committed(p)']_vars

(* C31 witness: process_file has returned success for a file that is in the *)
(* destination although no endpoint answered the refresh.                   *)
C31_Witness ==
  \E p \in Procs :
    /\ pc[p] = "pf_ret"
    /\ loc[p].ret
    /\ loc[p].refreshed
    /\ loc[p].warned = PLEX_REFRESH_URLS
    /\ Committed(p)

(* The quarantine entry _move_to_failures of p has moved and not yet dated. *)
Undated(p) ==
  {e \in fail : e.dir = loc[p].mtf.dir /\ e.f.name = loc[p].mtf.name}

(* C32: a file a process has just moved into quarantine is still there when *)
(* that process sets its modification time: no retention sweep of another   *)
(* process deletes it between the move and the os.utime.                    *)
C32_FreshQuarantineKept ==
  \A p \in Procs : pc[p] = "utime" => Undated(p) # {}

(* The contents held by the inbox, the working areas, the library and the   *)
(* quarantine.                                                              *)
Contents ==
  {f.id : f \in root \cup sub \cup UNION {tmp[p] : p \in Procs}}
    \cup {e.f.id : e \in dest} \cup {e.f.id : e \in fail}

(* Content i is in a quarantined file that has reached the retention age. *)
RetentionDue(i) ==
  \E e \in fail : e.f.id = i /\ age_days(e.f) >= FAILURE_RETENTION_DAYS

(* Content i is a strictly lower version of the episode some process is     *)
(* committing into the same directory.                                      *)
LowerVersion(i) ==
  \E p \in Procs, e \in dest :
    /\ pc[p] = "pf_fin"
    /\ Versioned(loc[p])
    /\ e.f.id = i
    /\ e.dir = loc[p].dir
    /\ tag_search(e.f.name, loc[p].row.Season, loc[p].info[1]) > 0
    /\ tag_search(e.f.name, loc[p].row.Season, loc[p].info[1]) < loc[p].info[2]

(* C33: no content is lost: whatever content a step removes from the inbox, *)
(* the working areas, the library and the quarantine altogether was due for *)
(* retention deletion or was a strictly lower version of an episode being   *)
(* committed; in particular no move overwrites a different file of the same *)
(* name.                                                                    *)
C33_NoContentLost ==
  [][\A i \in Contents \ Contents' : RetentionDue(i) \/ LowerVersion(i)]_vars

(* The process holds its locks for a candidate that is gone. *)
Vanished(p) == pc[p] = "exists" /\ cur[p] \notin WdFiles(loc[p].wd)

(* C34: a process that holds the locks for a candidate which no longer      *)
(* exists goes straight to the release of the Slot: it does not call        *)
(* process_file, it changes neither the inbox, the destination, the         *)
(* quarantine nor a working area, it creates no marker; and the release of  *)
(* the Slot and of the Claim leave no marker of it behind.                   *)
C34_VanishedCandidateSkipped ==
  [][\A p \in Procs :
       /\ (Vanished(p) /\ pc'[p] # "exists")
            => /\ pc'[p] = "unslot"
               /\ UNCHANGED <<root, sub, dest, fail, tmp, locks>>
       /\ (pc[p] = "unslot" /\ pc'[p] \in {"slot", "unclaim", "loop"})
            => Held(p, "slot")' = {}
       /\ (pc[p] = "unclaim" /\ pc'[p] = "loop")
            => Held(p, "claim")' = {}]_vars

(* C34 witness: a process has the Claim and the Slot for a file that        *)
(* another process has meanwhile put into the library.                      *)
C34_Witness ==
  \E p \in Procs :
    /\ Vanished(p)
    /\ Held(p, "claim") # {}
    /\ Held(p, "slot") # {}
    /\ \E e \in dest : e.f.id = cur[p].id

(* C36: the output of a transcode in progress stays in the working          *)
(* directory of the process that runs it until that process moves it: no    *)
(* other process removes the directory of a process that is still encoding. *)
C36_TranscodeOutputKept ==
  \A p \in Procs : pc[p] \in {"pf_encoding", "pf_commit"} => OutFiles(p) # {}

(* The files a run has taken up as candidates or has produced. *)
Handled ==
  {cur[p] : p \in Procs} \cup UNION {{todo[p][i] : i \in 1..Len(todo[p])} : p \in Procs}
    \cup UNION {tmp[p] : p \in Procs}
    \cup {e.f : e \in dest} \cup {e.f : e \in fail}

(* C37: no lock marker is ever a candidate: none is among the paths a       *)
(* walker still has to visit, none is the current file of a process (so     *)
(* none is claimed, classified, extracted or passed to process_file), none  *)
(* reaches a working area, the library or the quarantine, and no Claim      *)
(* sidecar is created for a marker.                                         *)
C37_MarkersNeverCandidates ==
  /\ \A f \in Handled : ~(\/ f.name \in {SlotName("root"), SlotName("sub")}
                          \/ suffix(f.name) = "lock")
  /\ \A k \in locks : k.path.kind = "claim" => suffix(k.path.name) # "lock"

(* C37 witness: a walker has just listed a directory in which another       *)
(* process has a Claim sidecar and a Slot marker, and has skipped both.     *)
C37_Witness ==
  \E p \in Procs :
    /\ pc[p] = "loop"
    /\ loc[p].skipped >= 2
    /\ todo[p] # <<>>

(* C35: no run waits for another and every run ends: whatever the other     *)
(* process does and whatever stale marker lies in the inbox, a run that is  *)
(* scheduled visits the files it has listed one after the other, each at    *)
(* most once, and reaches the end of main.                                  *)
C35_RunsReachEndOfMain ==
  /\ [][\A p \in Procs :
          \/ Len(todo'[p]) <= Len(todo[p])
          \/ pc[p] = "start"
          \/ (pc[p] = "loop" /\ loc[p].walker = "mv" /\ todo[p] = <<>>)]_vars
  /\ \A p \in Procs : <>(pc[p] = "done")
====
